---------------------------- MODULE Spec2Model ----------------------------
(***************************************************************************)
(* MindPath API server: the notes store, the analysis log store, the       *)
(* request handlers of server.js, the automatic-analysis trigger and the   *)
(* analysis runs (manual and background), with the Gemini wrapper of       *)
(* geminiService.js.                                                       *)
(*                                                                         *)
(* A handler is a sequence of steps separated by its awaits.  The step     *)
(* that issues a database call also reads the clock (getCurrentTimestamp   *)
(* runs when the call is made); the step that follows executes the SQL     *)
(* statement and runs the handler up to its next await.                    *)
(***************************************************************************)
EXTENDS Integers, Sequences, FiniteSets, TLC

(***************************************************************************)
(* Bounds of the model.                                                    *)
(***************************************************************************)
MaxRequests == 2      \* requests accepted in one behaviour
MaxClock == 2         \* milliseconds the clock may advance after start-up
MaxIdParam == 2       \* largest note id a request path names
MaxNoteRequests == 3  \* requests accepted in one behaviour of SpecNotes
MaxBatchNotes == 11   \* most notes the owner holds at the start of SpecBatch
MaxBatchRequests == 1 \* requests accepted in one behaviour of SpecBatch
MaxFaultRequests == 2 \* requests accepted in one behaviour of SpecFault
MaxAuthRequests == 2  \* requests accepted in one behaviour of SpecAuth
MaxClientRequests == 3 \* requests the bundled client sends in one behaviour
MaxOrderRequests == 3 \* requests accepted in one behaviour of SpecOrder
MaxGoneRequests == 3  \* requests accepted in one behaviour of SpecGone
MaxGoneSeed == 2      \* most notes the database holds at the start of SpecGone
MaxLogRequests == 3   \* requests accepted in one behaviour of SpecLogs
MaxRaceRequests == 4  \* requests accepted in one behaviour of SpecRace
MaxPatchRequests == 2 \* requests accepted in one behaviour of SpecPatch
MaxResources == 2     \* most elements of the resources array Gemini returns
MaxResourceRequests == 1 \* requests accepted in one behaviour of SpecResources

(***************************************************************************)
(* Program constants.                                                      *)
(***************************************************************************)
AnalysisThreshold == 10
BatchLimit == 10
CharBudget == 16000

Users == {"u1", "u2"}

(***************************************************************************)
(* JavaScript values of a request body field.  A string is its text and    *)
(* its length; a long string is named by its length.                       *)
(***************************************************************************)
Undefined == [type |-> "undefined", text |-> "", len |-> 0]
Null == [type |-> "object", text |-> "null", len |-> 0]
Num(t) == [type |-> "number", text |-> t, len |-> 0]
Str(t, n) == [type |-> "string", text |-> t, len |-> n]

EmptyStr == Str("", 0)
StrLen(v) == v.len

\* JavaScript truthiness: undefined, null, "" and 0 are falsy.
Truthy(v) ==
    CASE v.type = "undefined" -> FALSE
      [] v.type = "object" -> FALSE
      [] v.type = "number" -> v.text # "0"
      [] v.type = "string" -> v.len > 0

TypeofString(v) == v.type = "string"


(***************************************************************************)
(* The two tables of notes.db.  A row is a record; a table is the set of   *)
(* its rows together with its AUTOINCREMENT sequence (the largest id ever  *)
(* assigned).  Timestamps are milliseconds relative to server start-up:    *)
(* toISOString gives fixed-width strings whose order is the order of the   *)
(* instants.                                                               *)
(***************************************************************************)
VARIABLES
    notes,        \* rows of table notes
    noteSeq,      \* sqlite_sequence of table notes
    logs,         \* rows of table analysis_logs
    logSeq,       \* sqlite_sequence of table analysis_logs
    clock,        \* the last value Date.now() returned
    gemini,       \* TRUE iff geminiService was initialised at start-up
    req,          \* the request handler running in each connection slot
    bg,           \* background analysis runs scheduled with setImmediate
    resp,         \* per slot: the response to the request last answered there,
                  \* until the next request arrives
    nreq,         \* requests the clients have yet to send
    scheduled,    \* per user: setImmediate calls made by create-note requests
    removed,      \* per user: notes deleted so far
    calls,        \* analyzer invocations made so far: who, how, batch size
    creator,      \* per note id assigned so far: the user who created it
    errors        \* errors the setImmediate callback caught and logged

vars == <<notes, noteSeq, logs, logSeq, clock, gemini, req, bg, resp,
          nreq, scheduled, removed, calls, creator, errors>>

Slots == {1, 2}

NoteRow(id, userId, title, content, ts) ==
    [note_id |-> id, user_id |-> userId, title |-> title,
     content |-> content, last_updated |-> ts]

NoRow == NoteRow(0, "", Undefined, Undefined, 0)

\* new Date().toISOString(): the clock never goes back, and two readings
\* may fall in the same millisecond.
Now == {clock} \cup (IF clock < MaxClock THEN {clock + 1} ELSE {})

RowsOf(tbl, userId) == {r \in tbl : r.user_id = userId}

Newest(rows) == {r \in rows : \A q \in rows : q.last_updated <= r.last_updated}

\* ORDER BY last_updated DESC: every sequence of the rows that is in
\* descending order of last_updated; SQL leaves the order of ties open.
RECURSIVE OrderByLastUpdatedDesc(_)
OrderByLastUpdatedDesc(rows) ==
    IF rows = {} THEN {<<>>}
    ELSE UNION {{<<r>> \o rest : rest \in OrderByLastUpdatedDesc(rows \ {r})} :
                r \in Newest(rows)}

Limit(rowSeq, n) == SubSeq(rowSeq, 1, IF Len(rowSeq) < n THEN Len(rowSeq) ELSE n)

\* INTEGER PRIMARY KEY without AUTOINCREMENT: one more than the largest id
\* in the table.
InsertedNote_MaxRowid(seq, userId, title, content, ts) ==
    NoteRow(1 + Cardinality({i \in 1..seq : \E r \in notes : r.note_id >= i}),
            userId, title, content, ts)

\* The INSERT with title and content bound in each other's place.
InsertedNote_Swapped(seq, userId, title, content, ts) ==
    NoteRow(seq + 1, userId, content, title, ts)

\* dbOperations.createNote: the row inserted with the next id.
InsertedNote(seq, userId, title, content, ts) ==
    NoteRow(seq + 1, userId, title, content, ts)

\* dbOperations.getAllNotes
getAllNotes(tbl, userId) == OrderByLastUpdatedDesc(RowsOf(tbl, userId))

\* WHERE note_id = ? without AND user_id = ?
getNoteById_AnyOwner(tbl, id, userId) == {r \in tbl : r.note_id = id}

\* dbOperations.getNoteById: the rows matching note_id and user_id.
getNoteById(tbl, id, userId) == {r \in tbl : r.note_id = id /\ r.user_id = userId}

\* UPDATE ... WHERE note_id = ? without AND user_id = ?
updateNote_AnyOwner(tbl, id, userId, title, content, ts) ==
    LET hit == {r \in tbl : r.note_id = id} IN
    [rows |-> (tbl \ hit) \cup
              {[r EXCEPT !.title = title, !.content = content, !.last_updated = ts] :
               r \in hit},
     changes |-> Cardinality(hit)]

\* dbOperations.updateNote: the table after the UPDATE statement, and the
\* number of rows it changed (this.changes).
updateNote(tbl, id, userId, title, content, ts) ==
    LET hit == {r \in tbl : r.note_id = id /\ r.user_id = userId} IN
    [rows |-> (tbl \ hit) \cup
              {[r EXCEPT !.title = title, !.content = content, !.last_updated = ts] :
               r \in hit},
     changes |-> Cardinality(hit)]

\* dbOperations.deleteNote: the table after the DELETE statement, and the
\* number of rows it removed (this.changes).
deleteNote(tbl, id, userId) ==
    LET hit == {r \in tbl : r.note_id = id /\ r.user_id = userId} IN
    [rows |-> tbl \ hit, changes |-> Cardinality(hit)]

\* note.content.length alone
NoteChars_ContentOnly(note) == StrLen(note.content)

\* The character-budget loop of getLatestNotesForAnalysis.
NoteChars(note) == StrLen(note.title) + StrLen(note.content)

\* The loop with `continue` in place of `break`.
RECURSIVE TrimToBudget_Skip(_, _)
TrimToBudget_Skip(rowSeq, totalChars) ==
    IF rowSeq = <<>> THEN <<>>
    ELSE IF totalChars + NoteChars(Head(rowSeq)) <= CharBudget
         THEN <<Head(rowSeq)>> \o
              TrimToBudget_Skip(Tail(rowSeq), totalChars + NoteChars(Head(rowSeq)))
         ELSE TrimToBudget_Skip(Tail(rowSeq), totalChars)

RECURSIVE TrimToBudget(_, _)
TrimToBudget(rowSeq, totalChars) ==
    IF rowSeq = <<>> THEN <<>>
    ELSE IF totalChars + NoteChars(Head(rowSeq)) <= CharBudget
         THEN <<Head(rowSeq)>> \o
              TrimToBudget(Tail(rowSeq), totalChars + NoteChars(Head(rowSeq)))
         ELSE <<>>

\* The columns the query of getLatestNotesForAnalysis selects.
Columns(r) ==
    [note_id |-> r.note_id, title |-> r.title, content |-> r.content,
     last_updated |-> r.last_updated]

\* SELECT note_id, title, content, last_updated ... ORDER BY last_updated
\* DESC LIMIT 10: every row sequence the query may return.
SelectLatest(tbl, userId) ==
    {[i \in DOMAIN Limit(rowSeq, BatchLimit) |-> Columns(rowSeq[i])] :
     rowSeq \in OrderByLastUpdatedDesc(RowsOf(tbl, userId))}

\* dbOperations.getLatestNotesForAnalysis: every batch the call may return.
getLatestNotesForAnalysis(tbl, userId) ==
    {TrimToBudget(rowSeq, 0) : rowSeq \in SelectLatest(tbl, userId)}

LogRow(id, userId, analysisType, notesAnalyzed, generatedResources, ts, triggerType) ==
    [log_id |-> id, user_id |-> userId, analysis_type |-> analysisType,
     notes_analyzed |-> notesAnalyzed, generated_resources |-> generatedResources,
     created_at |-> ts, trigger_type |-> triggerType]

\* dbOperations.createAnalysisLog: the row inserted with the next id.
InsertedLog(seq, userId, analysisType, notesAnalyzed, generatedResources, ts, triggerType) ==
    LogRow(seq + 1, userId, analysisType, notesAnalyzed, generatedResources, ts, triggerType)

\* INSERT OR REPLACE keyed by the owner: the owner's earlier rows are lost.
createAnalysisLog_Replace(tbl, row) == {l \in tbl : l.user_id # row.user_id} \cup {row}

\* dbOperations.createAnalysisLog: the table after the INSERT statement.
createAnalysisLog(tbl, row) == tbl \cup {row}

NoLog == LogRow(0, "", "", <<>>, <<>>, 0, Undefined)

\* JSON.stringify and JSON.parse on the values the server serialises
\* (numbers, strings, null, arrays and objects of these).
JsonStringify(v) == [json |-> v]
JsonParse(s) == s.json

\* notes.map(note => ({ id: note.note_id, title: note.title }))
NotesAnalyzed(batch) ==
    [i \in 1..Len(batch) |-> [id |-> batch[i].note_id, title |-> batch[i].title]]

(***************************************************************************)
(* geminiService.js.  The provider's answer is either a rejection of       *)
(* generateContent or a text.  A text is described by what the wrapper     *)
(* looks at: whether it is wrapped in a markdown fence, whether its body   *)
(* is JSON, and the three fields of the parsed object.                     *)
(***************************************************************************)
Resource(title, description, type, url) ==
    [title |-> title, description |-> description, type |-> type, url |-> url]

\* The field `resources` of the parsed object: absent or falsy, a truthy
\* non-array value, or an array of resource objects.
NoResources == [present |-> FALSE, isArray |-> FALSE, items |-> <<>>]
ResourceArray(items) == [present |-> TRUE, isArray |-> TRUE, items |-> items]

Raw(throws, fenced, isJson, text, analysis, resources, recommendations) ==
    [throws |-> throws, fenced |-> fenced, isJson |-> isJson, text |-> text,
     analysis |-> analysis, resources |-> resources,
     recommendations |-> recommendations]

RawThrow == Raw(TRUE, FALSE, FALSE, EmptyStr, Undefined, NoResources, Undefined)
RawProse == Raw(FALSE, FALSE, FALSE, Str("I am sorry", 10), Undefined, NoResources, Undefined)
RawNoResources ==
    Raw(FALSE, FALSE, TRUE, Str("{analysis,recommendations}", 26),
        Str("calm", 4), NoResources, Str("rest", 4))
RawGood ==
    Raw(FALSE, FALSE, TRUE, Str("{analysis,resources,recommendations}", 36),
        Str("calm", 4),
        ResourceArray(<<Resource(Str("Breathing", 9), Str("5 minutes", 9),
                                 Str("exercise", 8), Null)>>),
        Str("rest", 4))

RawFenced == [RawGood EXCEPT !.fenced = TRUE]

GeminiResponses == {RawThrow, RawProse, RawNoResources, RawGood, RawFenced}

Data(analysis, resources, recommendations) ==
    [analysis |-> analysis, resources |-> resources,
     recommendations |-> recommendations]

NoData == Data(Undefined, <<>>, Undefined)

Result(success, data, error) == [success |-> success, data |-> data, error |-> error]

\* text.trim() and the removal of a leading ```json / ``` fence.
CleanText(raw) == [raw EXCEPT !.fenced = FALSE]

\* JSON.parse throws on a text that is fenced or whose body is not JSON.
JsonParses(raw) == raw.isJson /\ ~raw.fenced

\* a || b
OrElse(v, default) == IF Truthy(v) THEN v ELSE default

\* The map over parsedResponse.resources.
NormaliseResource(r) ==
    Resource(OrElse(r.title, Str("Untitled Resource", 17)),
             OrElse(r.description, Str("No description available", 24)),
             OrElse(r.type, Str("tool", 4)),
             OrElse(r.url, Null))

\* The catch (parseError) branch: the raw text in a structured format.
Fallback(raw) ==
    Result(TRUE,
           Data(Str("AI analysis completed successfully. ...", 103),
                <<Resource(Str("AI Analysis Results", 19), raw.text,
                           Str("analysis", 8), Null)>>,
                Str("Please review the analysis above ...", 132)),
           EmptyStr)

\* The inner try block with a catch that reports the failure instead of
\* building a placeholder.
ParseResponse_Strict(raw) ==
    LET clean == CleanText(raw) IN
    IF ~JsonParses(clean) \/ ~Truthy(clean.analysis) \/ ~clean.resources.present
       \/ ~Truthy(clean.recommendations)
    THEN Result(FALSE, NoData, Str("Invalid response structure", 26))
    ELSE Result(TRUE,
                Data(clean.analysis,
                     [i \in 1..Len(clean.resources.items) |->
                        NormaliseResource(clean.resources.items[i])],
                     clean.recommendations),
                EmptyStr)

\* The inner try block: parse, validate, normalise.
ParseResponse(raw) ==
    LET clean == CleanText(raw) IN
    IF ~JsonParses(clean) THEN Fallback(raw)
    ELSE IF ~Truthy(clean.analysis) \/ ~clean.resources.present
            \/ ~Truthy(clean.recommendations)
         THEN Fallback(raw)
         ELSE LET items == IF clean.resources.isArray
                              THEN clean.resources.items ELSE <<>> IN
              Result(TRUE,
                     Data(clean.analysis,
                          [i \in 1..Len(items) |-> NormaliseResource(items[i])],
                          clean.recommendations),
                     EmptyStr)

\* GeminiService.analyzeNotesAndGenerateResources, given the provider's answer.
analyzeNotesAndGenerateResources(raw) ==
    IF raw.throws THEN Result(FALSE, NoData, Str("fetch failed", 12))
    ELSE ParseResponse(raw)

(***************************************************************************)
(* server.js: handlers.  A handler record holds the position of a handler  *)
(* and its local variables; a response record is what res.json sent.       *)
(***************************************************************************)
Handler(pc, kind, user, id, title, content, ts, note, trigger, batch, result) ==
    [pc |-> pc, kind |-> kind, user |-> user, id |-> id, title |-> title,
     content |-> content, ts |-> ts, note |-> note, trigger |-> trigger,
     batch |-> batch, raw |-> RawThrow, result |-> result]

NoResult == Result(FALSE, NoData, EmptyStr)

Idle == Handler("idle", "", "", 0, Undefined, Undefined, 0, NoRow, Undefined,
                <<>>, NoResult)

Response(slot, kind, user, id, status, message, note, rows, flag, data, logId, n) ==
    [slot |-> slot, kind |-> kind, user |-> user, id |-> id, status |-> status,
     message |-> message, note |-> note, notes |-> rows,
     shouldTriggerAnalysis |-> flag, analysis |-> data, logId |-> logId,
     notesAnalyzed |-> n, logs |-> <<>>, log |-> NoLog]

NoResponse == Response(0, "", "", 0, 0, "", NoRow, <<>>, FALSE, NoData, 0, 0)

\* A response that carries a status and a message only.  The fields slot,
\* kind, user and id of a response name the request it answers.
Plain(slot, kind, user, id, status, message) ==
    Response(slot, kind, user, id, status, message, NoRow, <<>>, FALSE, NoData, 0, 0)

\* req.params.id as parseInt reads it: NaN, or an integer.
NaNId == [nan |-> TRUE, n |-> 0]
PathId(n) == [nan |-> FALSE, n |-> n]

\* isNaN(noteId) || noteId <= 0
InvalidId(idParam) == idParam.nan \/ idParam.n <= 0

\* The validation without its typeof checks.
ValidateBody_PresenceOnly(title, content, required) ==
    IF ~Truthy(title) \/ ~Truthy(content) THEN required ELSE ""

\* The validation of title and content in POST and PUT: the message of the
\* 400 response, or "" when the body passes.
ValidateBody(title, content, required) ==
    IF ~Truthy(title) \/ ~Truthy(content) THEN required
    ELSE IF ~TypeofString(title) \/ ~TypeofString(content)
         THEN "Title and content must be strings"
         ELSE ""

\* allNotes.length >= 10 in place of allNotes.length === 10
ShouldTrigger_AtLeast(count, service) == count >= AnalysisThreshold /\ service

\* The service left out of the condition.
ShouldTrigger_CountOnly(count, service) == count = AnalysisThreshold

\* allNotes.length === 10 && geminiService
ShouldTrigger(count, service) == count = AnalysisThreshold /\ service

\* A request arrives on a connection that has no request in progress.
Accept(s) == /\ req[s].pc = "idle"
             /\ nreq > 0
             /\ nreq' = nreq - 1

Reply(s, r) == /\ req' = [req EXCEPT ![s] = Idle]
               /\ resp' = [resp EXCEPT ![s] = r]

Store == <<notes, noteSeq, logs, logSeq, creator>>
History == <<scheduled, removed, calls, errors>>

(***************************************************************************)
(* POST /api/notes                                                         *)
(***************************************************************************)
BeginCreate(s, u, title, content) ==
    /\ Accept(s)
    /\ LET bad == ValidateBody(title, content, "Both title and content are required") IN
       IF bad # ""
       THEN /\ resp' = [resp EXCEPT ![s] = Plain(s, "create", u, 0, 400, bad)]
            /\ UNCHANGED <<req, clock>>
       ELSE \E ts \in Now :
            /\ clock' = ts
            /\ req' = [req EXCEPT ![s] =
                         Handler("createNote", "create", u, 0, title, content, ts,
                                 NoRow, Undefined, <<>>, NoResult)]
            /\ resp' = [resp EXCEPT ![s] = NoResponse]
    /\ UNCHANGED <<Store, History, gemini, bg>>

\* The INSERT runs; the handler goes on to call getAllNotes.
ExecCreateNote(s) ==
    /\ req[s].pc = "createNote"
    /\ LET h == req[s]
           newNote == InsertedNote(noteSeq, h.user, h.title, h.content, h.ts) IN
       /\ notes' = notes \cup {newNote}
       /\ noteSeq' = newNote.note_id
       /\ creator' = [i \in 1..newNote.note_id |->
                        IF i = newNote.note_id THEN h.user ELSE creator[i]]
       /\ req' = [req EXCEPT ![s] = [h EXCEPT !.pc = "getAllNotes", !.note = newNote]]
    /\ UNCHANGED <<logs, logSeq, History, clock, gemini, bg, resp, nreq>>

\* The callback called at once instead of queued with setImmediate.
BackgroundRun_Started(u) ==
    Handler("getLatest", "background", u, 0, Undefined, Undefined, 0, NoRow,
            Str("automatic", 9), <<>>, NoResult)

\* A background run as setImmediate queues it.
BackgroundRun(u) ==
    Handler("scheduled", "background", u, 0, Undefined, Undefined, 0, NoRow,
            Str("automatic", 9), <<>>, NoResult)

\* The SELECT runs; the handler checks the count, schedules the background
\* run and sends the response.
ExecGetAllNotes(s) ==
    /\ req[s].pc = "getAllNotes"
    /\ LET h == req[s] IN
       \E allNotes \in getAllNotes(notes, h.user) :
          LET shouldTriggerAnalysis == ShouldTrigger(Len(allNotes), gemini) IN
          /\ bg' = IF shouldTriggerAnalysis THEN Append(bg, BackgroundRun(h.user)) ELSE bg
          /\ scheduled' = IF shouldTriggerAnalysis
                             THEN [scheduled EXCEPT ![h.user] = @ + 1]
                             ELSE scheduled
          /\ Reply(s, Response(s, "create", h.user, h.id, 201, "Note created successfully",
                               h.note, <<>>, shouldTriggerAnalysis, NoData, 0, 0))
    /\ UNCHANGED <<errors, Store, removed, calls, clock, gemini, nreq>>

(***************************************************************************)
(* GET /api/notes and GET /api/notes/:id                                   *)
(***************************************************************************)
BeginList(s, u) ==
    /\ Accept(s)
    /\ req' = [req EXCEPT ![s] =
                 Handler("list", "list", u, 0, Undefined, Undefined, 0, NoRow,
                         Undefined, <<>>, NoResult)]
    /\ resp' = [resp EXCEPT ![s] = NoResponse]
    /\ UNCHANGED <<Store, History, clock, gemini, bg>>

ExecList(s) ==
    /\ req[s].pc = "list"
    /\ \E rows \in getAllNotes(notes, req[s].user) :
          Reply(s, Response(s, "list", req[s].user, 0, 200,
                            "Notes retrieved successfully", NoRow, rows, FALSE,
                            NoData, 0, Len(rows)))
    /\ UNCHANGED <<Store, History, clock, gemini, bg, nreq>>

BeginGet(s, u, idParam) ==
    /\ Accept(s)
    /\ IF InvalidId(idParam)
       THEN /\ resp' = [resp EXCEPT ![s] = Plain(s, "get", u, 0, 400,
                                 "Invalid note ID. Must be a positive integer.")]
            /\ UNCHANGED req
       ELSE /\ req' = [req EXCEPT ![s] =
                         Handler("get", "get", u, idParam.n, Undefined, Undefined,
                                 0, NoRow, Undefined, <<>>, NoResult)]
            /\ resp' = [resp EXCEPT ![s] = NoResponse]
    /\ UNCHANGED <<Store, History, clock, gemini, bg>>

ExecGet(s) ==
    /\ req[s].pc = "get"
    /\ LET h == req[s]
           found == getNoteById(notes, h.id, h.user) IN
       IF found = {}
       THEN Reply(s, Plain(s, "get", h.user, h.id, 404, "Note not found"))
       ELSE \E row \in found :
               Reply(s, Response(s, "get", h.user, h.id, 200, "Note retrieved successfully",
                                 row, <<>>, FALSE, NoData, 0, 0))
    /\ UNCHANGED <<Store, History, clock, gemini, bg, nreq>>

(***************************************************************************)
(* PUT /api/notes/:id                                                      *)
(***************************************************************************)
BeginPut(s, u, idParam, title, content) ==
    /\ Accept(s)
    /\ LET bad == IF InvalidId(idParam)
                     THEN "Invalid note ID. Must be a positive integer."
                     ELSE ValidateBody(title, content,
                              "Both title and content are required for update") IN
       IF bad # ""
       THEN /\ resp' = [resp EXCEPT ![s] =
                         Plain(s, "put", u, IF idParam.nan THEN 0 ELSE idParam.n,
                               400, bad)]
            /\ UNCHANGED <<req, clock>>
       ELSE \E ts \in Now :
            /\ clock' = ts
            /\ req' = [req EXCEPT ![s] =
                         Handler("updateNote", "put", u, idParam.n, title, content,
                                 ts, NoRow, Undefined, <<>>, NoResult)]
            /\ resp' = [resp EXCEPT ![s] = NoResponse]
    /\ UNCHANGED <<Store, History, gemini, bg>>

\* The UPDATE runs (for PUT and for PATCH): this.changes === 0 is not found.
ExecUpdateNote(s) ==
    /\ req[s].pc = "updateNote"
    /\ LET h == req[s]
           done == updateNote(notes, h.id, h.user, h.title, h.content, h.ts) IN
       /\ notes' = done.rows
       /\ IF done.changes = 0
          THEN Reply(s, Plain(s, h.kind, h.user, h.id, 404, "Note not found"))
          ELSE Reply(s, Response(s, h.kind, h.user, h.id, 200,
                                 "Note updated successfully",
                                 NoteRow(h.id, h.user, h.title, h.content, h.ts),
                                 <<>>, FALSE, NoData, 0, 0))
    /\ UNCHANGED <<noteSeq, logs, logSeq, creator, History, clock, gemini, bg, nreq>>

(***************************************************************************)
(* PATCH /api/notes/:id                                                    *)
(***************************************************************************)
BeginPatch(s, u, idParam, title, content) ==
    /\ Accept(s)
    /\ IF InvalidId(idParam)
       THEN /\ resp' = [resp EXCEPT ![s] = Plain(s, "patch", u, 0, 400,
                                 "Invalid note ID. Must be a positive integer.")]
            /\ UNCHANGED req
       ELSE /\ req' = [req EXCEPT ![s] =
                         Handler("getNoteById", "patch", u, idParam.n, title,
                                 content, 0, NoRow, Undefined, <<>>, NoResult)]
            /\ resp' = [resp EXCEPT ![s] = NoResponse]
    /\ UNCHANGED <<Store, History, clock, gemini, bg>>

\* The body's field taken as it is, absent or not.
Provided_AsSent(v, existing) == v

\* title !== undefined ? title : existingNote.title
Provided(v, existing) == IF v.type # "undefined" THEN v ELSE existing

\* The type checks of PATCH: the message of the 400 response, or "".
ValidatePatch(title, content) ==
    IF title.type # "undefined" /\ ~TypeofString(title) THEN "Title must be a string"
    ELSE IF content.type # "undefined" /\ ~TypeofString(content)
         THEN "Content must be a string"
         ELSE ""

\* The SELECT of the existing note runs; the handler merges, validates and
\* calls updateNote.
ExecPatchGet(s) ==
    /\ req[s].pc = "getNoteById"
    /\ LET h == req[s]
           found == getNoteById(notes, h.id, h.user) IN
       IF found = {}
       THEN /\ Reply(s, Plain(s, "patch", h.user, h.id, 404, "Note not found"))
            /\ UNCHANGED clock
       ELSE \E existingNote \in found :
            LET updatedTitle == Provided(h.title, existingNote.title)
                updatedContent == Provided(h.content, existingNote.content)
                bad == ValidatePatch(h.title, h.content) IN
            IF bad # ""
            THEN /\ Reply(s, Plain(s, "patch", h.user, h.id, 400, bad))
                 /\ UNCHANGED clock
            ELSE \E ts \in Now :
                 /\ clock' = ts
                 /\ req' = [req EXCEPT ![s] =
                              [h EXCEPT !.pc = "updateNote", !.title = updatedTitle,
                                        !.content = updatedContent, !.ts = ts,
                                        !.note = existingNote]]
                 /\ UNCHANGED resp
    /\ UNCHANGED <<Store, History, gemini, bg, nreq>>

(***************************************************************************)
(* DELETE /api/notes/:id                                                   *)
(***************************************************************************)
BeginDelete(s, u, idParam) ==
    /\ Accept(s)
    /\ IF InvalidId(idParam)
       THEN /\ resp' = [resp EXCEPT ![s] = Plain(s, "delete", u, 0, 400,
                                 "Invalid note ID. Must be a positive integer.")]
            /\ UNCHANGED req
       ELSE /\ req' = [req EXCEPT ![s] =
                         Handler("deleteNote", "delete", u, idParam.n, Undefined,
                                 Undefined, 0, NoRow, Undefined, <<>>, NoResult)]
            /\ resp' = [resp EXCEPT ![s] = NoResponse]
    /\ UNCHANGED <<Store, History, clock, gemini, bg>>

\* The note ids a log row lists in notes_analyzed.
ListedIds(l) ==
    LET entries == JsonParse(l.notes_analyzed) IN {entries[i].id : i \in DOMAIN entries}

\* The DELETE cascading to the log rows that list the note.
ExecDeleteNote_Cascade(s) ==
    /\ req[s].pc = "deleteNote"
    /\ LET h == req[s]
           done == deleteNote(notes, h.id, h.user) IN
       /\ notes' = done.rows
       /\ logs' = IF done.changes = 0 THEN logs
                  ELSE {l \in logs : h.id \notin ListedIds(l)}
       /\ removed' = [removed EXCEPT ![h.user] = @ + done.changes]
       /\ IF done.changes = 0
          THEN Reply(s, Plain(s, "delete", h.user, h.id, 404, "Note not found"))
          ELSE Reply(s, Response(s, "delete", h.user, h.id, 200,
                                 "Note deleted successfully",
                                 NoRow, <<>>, FALSE, NoData, 0, 0))
    /\ UNCHANGED <<errors, noteSeq, logSeq, creator, scheduled, calls, clock, gemini,
                   bg, nreq>>

ExecDeleteNote(s) ==
    /\ req[s].pc = "deleteNote"
    /\ LET h == req[s]
           done == deleteNote(notes, h.id, h.user) IN
       /\ notes' = done.rows
       /\ removed' = [removed EXCEPT ![h.user] = @ + done.changes]
       /\ IF done.changes = 0
          THEN Reply(s, Plain(s, "delete", h.user, h.id, 404, "Note not found"))
          ELSE Reply(s, Response(s, "delete", h.user, h.id, 200,
                                 "Note deleted successfully",
                                 NoRow, <<>>, FALSE, NoData, 0, 0))
    /\ UNCHANGED <<errors, noteSeq, logs, logSeq, creator, scheduled, calls, clock, gemini,
                   bg, nreq>>

(***************************************************************************)
(* POST /api/analyze-notes                                                 *)
(***************************************************************************)
\* const { triggerType = 'manual' } = req.body
TriggerTypeOf(v) == IF v.type = "undefined" THEN Str("manual", 6) ELSE v

AnalyzerCall(kind, u, batch) == [kind |-> kind, user |-> u, n |-> Len(batch)]

BeginAnalyze(s, u, triggerType) ==
    /\ Accept(s)
    /\ IF ~gemini
       THEN /\ resp' = [resp EXCEPT ![s] = Plain(s, "analyze", u, 0, 503,
                                 "Gemini analysis service is not available.")]
            /\ UNCHANGED req
       ELSE /\ req' = [req EXCEPT ![s] =
                         Handler("getLatest", "analyze", u, 0, Undefined, Undefined,
                                 0, NoRow, triggerType, <<>>, NoResult)]
            /\ resp' = [resp EXCEPT ![s] = NoResponse]
    /\ UNCHANGED <<Store, History, clock, gemini, bg>>

\* The SELECT runs; an empty batch is refused, any other is sent to Gemini.
ExecAnalyzeSelect(s) ==
    /\ req[s].pc = "getLatest"
    /\ LET h == req[s] IN
       \E batch \in getLatestNotesForAnalysis(notes, h.user) :
          IF Len(batch) = 0
          THEN /\ Reply(s, Plain(s, "analyze", h.user, h.id, 400,
                                 "No notes available for analysis"))
               /\ UNCHANGED calls
          ELSE /\ req' = [req EXCEPT ![s] = [h EXCEPT !.pc = "analyze", !.batch = batch]]
               /\ calls' = calls \cup {AnalyzerCall("request", h.user, batch)}
               /\ UNCHANGED resp
    /\ UNCHANGED <<errors, Store, scheduled, removed, clock, gemini, bg, nreq>>

\* Gemini answers and the wrapper returns its result.
AnalyzeReturns(s, raw) ==
    /\ req[s].pc = "analyze"
    /\ req' = [req EXCEPT ![s].pc = "analyzed", ![s].raw = raw,
                          ![s].result = analyzeNotesAndGenerateResources(raw)]
    /\ UNCHANGED <<Store, History, clock, gemini, bg, resp, nreq>>

\* The check of analysisResult.success left out.
Failed_Never(analysisResult) == FALSE

\* if (!analysisResult.success)
Failed(analysisResult) == ~analysisResult.success

\* The handler resumes with the result: a failure is answered with 500, a
\* success goes on to createAnalysisLog.
AnalyzeResume(s) ==
    /\ req[s].pc = "analyzed"
    /\ LET h == req[s] IN
       IF Failed(h.result)
       THEN /\ Reply(s, Plain(s, "analyze", h.user, h.id, 500, "Failed to analyze notes: "))
            /\ UNCHANGED clock
       ELSE \E ts \in Now :
            /\ clock' = ts
            /\ req' = [req EXCEPT ![s] = [h EXCEPT !.pc = "createAnalysisLog", !.ts = ts]]
            /\ UNCHANGED resp
    /\ UNCHANGED <<Store, History, gemini, bg, nreq>>

\* The row built from the owner's notes as they are when the row is written
\* instead of from the batch the run selected.
RunLog_Reselect(h) ==
    InsertedLog(logSeq, h.user, "mental_health_analysis",
                JsonStringify(NotesAnalyzed(
                   CHOOSE batch \in getLatestNotesForAnalysis(notes, h.user) : TRUE)),
                JsonStringify(h.result.data), h.ts, TriggerTypeOf(h.trigger))

\* The row a run appends to analysis_logs; h.trigger is the triggerType of
\* the request body, or 'automatic' for a background run.
RunLog(h) ==
    InsertedLog(logSeq, h.user, "mental_health_analysis",
                JsonStringify(NotesAnalyzed(h.batch)), JsonStringify(h.result.data),
                h.ts, TriggerTypeOf(h.trigger))

ExecCreateAnalysisLog(s) ==
    /\ req[s].pc = "createAnalysisLog"
    /\ LET h == req[s]
           analysisLog == RunLog(h) IN
       /\ logs' = createAnalysisLog(logs, analysisLog)
       /\ logSeq' = analysisLog.log_id
       /\ Reply(s, Response(s, "analyze", h.user, h.id, 200, "Notes analyzed successfully",
                            NoRow, <<>>, FALSE, h.result.data, analysisLog.log_id,
                            Len(h.batch)))
    /\ UNCHANGED <<notes, noteSeq, creator, History, clock, gemini, bg, nreq>>

(***************************************************************************)
(* The setImmediate callback of POST /api/notes                            *)
(***************************************************************************)
RemoveAt(q, i) == [j \in 1..(Len(q) - 1) |-> IF j < i THEN q[j] ELSE q[j + 1]]

\* Node runs the queued callbacks in the order setImmediate queued them;
\* the callback calls getLatestNotesForAnalysis.
AutoStart(i) ==
    /\ i \in DOMAIN bg
    /\ bg[i].pc = "scheduled"
    /\ \A j \in 1..(i - 1) : bg[j].pc # "scheduled"
    /\ bg' = [bg EXCEPT ![i].pc = "getLatest"]
    /\ UNCHANGED <<Store, History, clock, gemini, req, resp, nreq>>

\* The SELECT runs; the batch is sent to Gemini.
AutoSelect(i) ==
    /\ i \in DOMAIN bg
    /\ bg[i].pc = "getLatest"
    /\ \E batch \in getLatestNotesForAnalysis(notes, bg[i].user) :
          /\ bg' = [bg EXCEPT ![i].pc = "analyze", ![i].batch = batch]
          /\ calls' = calls \cup {AnalyzerCall("background", bg[i].user, batch)}
    /\ UNCHANGED <<errors, Store, scheduled, removed, clock, gemini, req, resp, nreq>>

\* Gemini answers and the wrapper returns its result.
AutoReturns(i, raw) ==
    /\ i \in DOMAIN bg
    /\ bg[i].pc = "analyze"
    /\ bg' = [bg EXCEPT ![i].pc = "analyzed", ![i].raw = raw,
                        ![i].result = analyzeNotesAndGenerateResources(raw)]
    /\ UNCHANGED <<Store, History, clock, gemini, req, resp, nreq>>

\* A failed run sent back to select and analyze again.
AutoResume_Retry(i) ==
    /\ i \in DOMAIN bg
    /\ bg[i].pc = "analyzed"
    /\ IF Failed(bg[i].result)
       THEN /\ bg' = [bg EXCEPT ![i].pc = "getLatest"]
            /\ UNCHANGED clock
       ELSE \E ts \in Now :
            /\ clock' = ts
            /\ bg' = [bg EXCEPT ![i].pc = "createAnalysisLog", ![i].ts = ts]
    /\ UNCHANGED <<Store, History, gemini, req, resp, nreq>>

\* The callback resumes with the result: a failure is logged to the console,
\* a success goes on to createAnalysisLog.
AutoResume(i) ==
    /\ i \in DOMAIN bg
    /\ bg[i].pc = "analyzed"
    /\ IF Failed(bg[i].result)
       THEN /\ bg' = RemoveAt(bg, i)
            /\ UNCHANGED clock
       ELSE \E ts \in Now :
            /\ clock' = ts
            /\ bg' = [bg EXCEPT ![i].pc = "createAnalysisLog", ![i].ts = ts]
    /\ UNCHANGED <<Store, History, gemini, req, resp, nreq>>

AutoLog(i) ==
    /\ i \in DOMAIN bg
    /\ bg[i].pc = "createAnalysisLog"
    /\ LET analysisLog == RunLog(bg[i]) IN
       /\ logs' = createAnalysisLog(logs, analysisLog)
       /\ logSeq' = analysisLog.log_id
    /\ bg' = RemoveAt(bg, i)
    /\ UNCHANGED <<notes, noteSeq, creator, History, clock, gemini, req, resp, nreq>>

\* catch (error) { console.error('Error in automatic analysis:', error) }
Caught(u, call) == [user |-> u, call |-> call]

\* getLatestNotesForAnalysis rejects (db.all reports an error): the callback
\* catches and logs it, and the run is over.
AutoSelectFails(i) ==
    /\ i \in DOMAIN bg
    /\ bg[i].pc = "getLatest"
    /\ errors' = errors \cup {Caught(bg[i].user, "getLatestNotesForAnalysis")}
    /\ bg' = RemoveAt(bg, i)
    /\ UNCHANGED <<Store, scheduled, removed, calls, clock, gemini, req, resp, nreq>>

\* createAnalysisLog rejects (db.run reports an error): no row is inserted,
\* the callback catches and logs it, and the run is over.
AutoLogFails(i) ==
    /\ i \in DOMAIN bg
    /\ bg[i].pc = "createAnalysisLog"
    /\ errors' = errors \cup {Caught(bg[i].user, "createAnalysisLog")}
    /\ bg' = RemoveAt(bg, i)
    /\ UNCHANGED <<Store, scheduled, removed, calls, clock, gemini, req, resp, nreq>>

(***************************************************************************)
(* Start-up and the next-state relation.  notes.db outlives the server     *)
(* process: the server starts on an empty database or on one that holds    *)
(* notes written earlier, here by one user who is one note short of the    *)
(* threshold.                                                              *)
(***************************************************************************)
SeedTitle == Str("T0", 2)
SeedContent == Str("C0", 2)

SeedNotes(k) == {NoteRow(i, "u1", SeedTitle, SeedContent, i - k) : i \in 1..k}

SeedCounts == {0, AnalysisThreshold - 1}

\* The server starts on a database holding the rows tbl (ids 1..Cardinality(tbl)),
\* with n requests to come.
StartWith(tbl, n) ==
    /\ notes = tbl
    /\ noteSeq = Cardinality(tbl)
    /\ creator = [i \in 1..Cardinality(tbl) |->
                    (CHOOSE r \in tbl : r.note_id = i).user_id]
    /\ logs = {}
    /\ logSeq = 0
    /\ clock = 0
    /\ gemini \in BOOLEAN
    /\ req = [s \in Slots |-> Idle]
    /\ bg = <<>>
    /\ resp = [s \in Slots |-> NoResponse]
    /\ nreq = n
    /\ scheduled = [u \in Users |-> 0]
    /\ removed = [u \in Users |-> 0]
    /\ calls = {}
    /\ errors = {}

StartOn(k, n) == StartWith(SeedNotes(k), n)

Init == \E k \in SeedCounts : StartOn(k, MaxRequests)

Titles == {Undefined, EmptyStr, Num("7"), Str("T1", 2)}
Contents == {Undefined, EmptyStr, Num("7"), Str("C1", 2), Str("long15999", 15999)}
IdParams == {NaNId} \cup {PathId(n) : n \in 0..MaxIdParam}
TriggerTypes == {Undefined, Str("manual", 6), Str("automatic", 9), Str("weekly", 6)}

\* The steps of the handler in slot s and of the background runs.
Steps(s) ==
    \/ ExecCreateNote(s)
    \/ ExecGetAllNotes(s)
    \/ ExecList(s)
    \/ ExecGet(s)
    \/ ExecUpdateNote(s)
    \/ ExecPatchGet(s)
    \/ ExecDeleteNote(s)
    \/ ExecAnalyzeSelect(s)
    \/ \E raw \in GeminiResponses : AnalyzeReturns(s, raw)
    \/ AnalyzeResume(s)
    \/ ExecCreateAnalysisLog(s)

Background ==
    \/ \E i \in 1..Len(bg) : AutoStart(i)
    \/ \E i \in 1..Len(bg) : AutoSelect(i)
    \/ \E i \in 1..Len(bg), raw \in GeminiResponses : AutoReturns(i, raw)
    \/ \E i \in 1..Len(bg) : AutoResume(i)
    \/ \E i \in 1..Len(bg) : AutoLog(i)

\* Requests arrive one at a time: the next is sent when the last was answered.
Next ==
    \/ \E u \in Users, t \in Titles, c \in Contents : BeginCreate(1, u, t, c)
    \/ \E u \in Users : BeginList(1, u)
    \/ \E u \in Users, id \in IdParams : BeginGet(1, u, id)
    \/ \E u \in Users, id \in IdParams, t \in Titles, c \in Contents :
          BeginPut(1, u, id, t, c)
    \/ \E u \in Users, id \in IdParams, t \in Titles, c \in Contents :
          BeginPatch(1, u, id, t, c)
    \/ \E u \in Users, id \in IdParams : BeginDelete(1, u, id)
    \/ \E u \in Users, tt \in TriggerTypes : BeginAnalyze(1, u, tt)
    \/ Steps(1)
    \/ Background

Spec == Init /\ [][Next]_vars

(***************************************************************************)
(* The note endpoints that move the count of an owner's notes: well-formed *)
(* creates and deletes, one request at a time, from a database in which    *)
(* u1 holds any number of notes below the threshold.                       *)
(***************************************************************************)
NoteSeedCounts == 0..(AnalysisThreshold - 1)

InitNotes == \E k \in NoteSeedCounts : StartOn(k, MaxNoteRequests)

NextNotes ==
    \/ \E u \in Users : BeginCreate(1, u, Str("T1", 2), Str("C1", 2))
    \/ \E u \in Users, n \in 1..MaxIdParam : BeginDelete(1, u, PathId(n))
    \/ ExecCreateNote(1)
    \/ ExecGetAllNotes(1)
    \/ ExecDeleteNote(1)
    \/ Background

SpecNotes == InitNotes /\ [][NextNotes]_vars

(***************************************************************************)
(* Batch selection on its own: the database holds up to MaxBatchNotes      *)
(* notes of u1 with distinct timestamps, of which the three newest have    *)
(* contents of any of the lengths BatchLens and the older ones are short,  *)
(* and one long note of u2; a manual analysis selects the batch.           *)
(***************************************************************************)
BatchLens == {1, 7999, 8000, 16000}

BatchNotes(k, lens) ==
    {NoteRow(i, "u1", Str("t", 1),
             IF i > k - 3 THEN Str("c", lens[k + 1 - i]) ELSE Str("c", 1), i - k) :
     i \in 1..k}
    \cup {NoteRow(k + 1, "u2", Str("t", 1), Str("c", 16000), 0)}

InitBatch ==
    \E k \in 0..MaxBatchNotes, lens \in [1..3 -> BatchLens] :
       /\ \A j \in 1..3 : j > k => lens[j] = 1
       /\ StartWith(BatchNotes(k, lens), MaxBatchRequests)

NextBatch ==
    \/ \E u \in Users : BeginAnalyze(1, u, Undefined)
    \/ ExecAnalyzeSelect(1)
    \/ \E raw \in GeminiResponses : AnalyzeReturns(1, raw)
    \/ AnalyzeResume(1)
    \/ ExecCreateAnalysisLog(1)

SpecBatch == InitBatch /\ [][NextBatch]_vars

(***************************************************************************)
(* Authentication.  Every /api route runs jwtCheck (express-jwt) before    *)
(* its handler.  A request carries no Authorization header, a bearer token *)
(* that does not verify, or a token that verifies for a user.  express-jwt *)
(* sets req.user from a verified token and otherwise passes an             *)
(* UnauthorizedError (status 401) to next(); Express hands an error to the *)
(* error-handling middleware, of which the server registers one.           *)
(***************************************************************************)
NoToken == [present |-> FALSE, verifies |-> FALSE, sub |-> ""]
BadToken == [present |-> TRUE, verifies |-> FALSE, sub |-> ""]
TokenOf(u) == [present |-> TRUE, verifies |-> TRUE, sub |-> u]

Tokens == {NoToken, BadToken} \cup {TokenOf(u) : u \in Users}

\* jwtCheck: req.user on success, the error passed to next() otherwise.
jwtCheck(token) ==
    IF token.present /\ token.verifies
    THEN [ok |-> TRUE, sub |-> token.sub, status |-> 0]
    ELSE [ok |-> FALSE, sub |-> "", status |-> 401]

\* app.use((error, req, res, next) => res.status(500).json(...))
ErrorHandler(s, kind, error) ==
    Plain(s, kind, "", 0, 500, "An unexpected error occurred")

\* A request to the /api/notes route `kind` that jwtCheck refuses.
Refused(s, kind, token) ==
    /\ Accept(s)
    /\ ~jwtCheck(token).ok
    /\ resp' = [resp EXCEPT ![s] = ErrorHandler(s, kind, jwtCheck(token))]
    /\ UNCHANGED <<Store, History, clock, gemini, bg, req>>

\* GET /health: no jwtCheck, no store call.
Health(s) ==
    /\ Accept(s)
    /\ resp' = [resp EXCEPT ![s] = Plain(s, "health", "", 0, 200, "MindPath API is running")]
    /\ UNCHANGED <<Store, History, clock, gemini, bg, req>>

NoteRoutes == {"create", "list", "get", "put", "patch", "delete"}

InitAuth == \E k \in SeedCounts : StartOn(k, MaxAuthRequests)

NextAuth ==
    \/ \E kind \in NoteRoutes, token \in Tokens : Refused(1, kind, token)
    \/ Health(1)
    \/ \E token \in Tokens :
          jwtCheck(token).ok /\ BeginList(1, jwtCheck(token).sub)
    \/ \E token \in Tokens :
          /\ jwtCheck(token).ok
          /\ BeginCreate(1, jwtCheck(token).sub, Str("T1", 2), Str("C1", 2))
    \/ ExecList(1)
    \/ ExecCreateNote(1)
    \/ ExecGetAllNotes(1)
    \/ Background

SpecAuth == InitAuth /\ [][NextAuth]_vars

(***************************************************************************)
(* Background runs whose store calls may fail: well-formed creates by an   *)
(* owner one note short of the threshold, and runs in which either         *)
(* database call of the callback may be rejected.                          *)
(***************************************************************************)
InitFault == StartOn(AnalysisThreshold - 1, MaxFaultRequests)

NextFault ==
    \/ \E u \in Users : BeginCreate(1, u, Str("T1", 2), Str("C1", 2))
    \/ ExecCreateNote(1)
    \/ ExecGetAllNotes(1)
    \/ Background
    \/ \E i \in 1..Len(bg) : AutoSelectFails(i)
    \/ \E i \in 1..Len(bg) : AutoLogFails(i)

SpecFault == InitFault /\ [][NextFault]_vars

NoteCount(u) == Cardinality(RowsOf(notes, u))

\* The background runs of user u in queue q.
QueuedFor(q, u) == Cardinality({i \in DOMAIN q : q[i].user = u})

(***************************************************************************)
(* C1.  Across any sequence of creates and deletes of one owner, while the *)
(* analyzer is available, the automatic analysis is scheduled at most once *)
(* for that owner, deletions that bring the count back to 10 included.     *)
(* The code schedules whenever the count read after the insert is 10, so   *)
(* the statement fails: create, delete, create from nine notes schedules   *)
(* twice.                                                                  *)
(***************************************************************************)
C1_ScheduledAtMostOnce == \A u \in Users : gemini => scheduled[u] <= 1

(***************************************************************************)
(* C2.  For an owner who only creates notes, one request at a time: the    *)
(* create that brings the owner's count to exactly 10 schedules exactly    *)
(* one automatic analysis; every other create (counts 1..9, 11, 12, ...)   *)
(* schedules none, and no other step schedules one.                        *)
(***************************************************************************)
C2_TenthCreateSchedulesOnce ==
    [][\A u \in Users :
          removed'[u] = 0 =>
             LET answered == /\ req[1].pc = "getAllNotes"
                             /\ req[1].user = u
                             /\ req'[1].pc = "idle"
                 tenth == /\ answered
                          /\ Cardinality(RowsOf(notes', u)) = 10
                          /\ gemini
             IN  /\ scheduled'[u] - scheduled[u] = IF tenth THEN 1 ELSE 0
                 /\ QueuedFor(bg', u) - QueuedFor(bg, u) <= IF tenth THEN 1 ELSE 0
                 /\ answered => resp'[1].shouldTriggerAnalysis = tenth]_vars

\* The owner created the tenth, eleventh and twelfth note and one analysis
\* was scheduled.
C2_Witness ==
    /\ removed["u1"] = 0
    /\ NoteCount("u1") = 12
    /\ req[1].pc = "idle"
    /\ scheduled["u1"] = 1

(***************************************************************************)
(* C3.  In every analysis run, manual or automatic, an empty batch fails   *)
(* the run before the analyzer is invoked: the analyzer is never called    *)
(* with zero notes and no analysis_logs row is written for such a run.     *)
(* The setImmediate callback has no such check, so the statement fails     *)
(* for the automatic run.                                                  *)
(***************************************************************************)
C3_EmptyBatchNeverAnalyzed ==
    /\ \A c \in calls : c.n > 0
    /\ \A l \in logs : Len(JsonParse(l.notes_analyzed)) > 0

(***************************************************************************)
(* C4.  Each analysis run changes the row count of analysis_logs by        *)
(* exactly one when the analyzer succeeds and by zero when it fails: a run *)
(* that holds a successful result goes on to createAnalysisLog and ends    *)
(* by adding one row of its owner, with trigger_type "manual" for a run    *)
(* requested without a trigger type and "automatic" for a background run;  *)
(* a run that holds a failure ends at once and adds no row; no other step  *)
(* changes the table.                                                      *)
(***************************************************************************)
ExpectedTrigger(h) ==
    IF h.kind = "background" THEN "automatic"
    ELSE IF h.trigger.type = "undefined" THEN "manual" ELSE h.trigger.text

\* The step of run h that ends it (ended) or takes it to h2.
RunStepOk(h, ended, h2) ==
    CASE h.pc = "analyzed" ->
            /\ logs' = logs
            /\ IF h.result.success
               THEN ~ended /\ h2.pc = "createAnalysisLog"
               ELSE ended
      [] h.pc = "createAnalysisLog" ->
            /\ h.result.success
            /\ ended
            /\ \E row \in logs' :
                  /\ \A l \in logs : l.log_id # row.log_id
                  /\ logs' = logs \cup {row}
                  /\ row.user_id = h.user
                  /\ row.trigger_type.text = ExpectedTrigger(h)
      [] OTHER -> logs' = logs

C4_OneRowPerSuccessfulRun ==
    [][/\ \A s \in Slots :
             req'[s] # req[s] /\ req[s].kind = "analyze" =>
                RunStepOk(req[s], req'[s].pc = "idle", req'[s])
       /\ Len(bg') = Len(bg) =>
             \A i \in DOMAIN bg : bg'[i] # bg[i] => RunStepOk(bg[i], FALSE, bg'[i])
       /\ Len(bg') < Len(bg) =>
             \E i \in DOMAIN bg : bg' = RemoveAt(bg, i) /\ RunStepOk(bg[i], TRUE, bg[i])
       /\ (/\ bg' = bg \/ Len(bg') > Len(bg)
           /\ \A s \in Slots : req'[s] = req[s] \/ req[s].kind # "analyze")
             => logs' = logs]_vars

\* An automatic run and a manual run have each added their row.
C4_Witness ==
    /\ bg = <<>>
    /\ req[1].pc = "idle"
    /\ scheduled["u1"] = 1
    /\ resp[1].kind = "analyze" /\ resp[1].status = 200
    /\ Cardinality(logs) = 2
    /\ \E a \in logs, m \in logs :
          a.trigger_type.text = "automatic" /\ m.trigger_type.text = "manual"

(***************************************************************************)
(* C5.  As stated: when the provider returns unusable output (a text that  *)
(* is not JSON, or JSON missing analysis, resources or recommendations),   *)
(* the run is an analyzer failure.                                         *)
(***************************************************************************)
Unusable(raw) ==
    /\ ~raw.throws
    /\ \/ ~raw.isJson
       \/ ~Truthy(raw.analysis)
       \/ ~raw.resources.present
       \/ ~Truthy(raw.recommendations)

Answered(h) == h.pc \in {"analyzed", "createAnalysisLog"}

C5_UnusableOutputIsFailure ==
    /\ \A s \in Slots : Answered(req[s]) /\ Unusable(req[s].raw) => ~req[s].result.success
    /\ \A i \in DOMAIN bg : Answered(bg[i]) /\ Unusable(bg[i].raw) => ~bg[i].result.success

(***************************************************************************)
(* C5, as the code has it.  Unusable output is turned into a successful    *)
(* placeholder result: one resource titled "AI Analysis Results" of type   *)
(* "analysis" whose description is the raw text.  The manual caller gets   *)
(* a 200 response carrying it and one row holding it is written.  Only a   *)
(* provider call that throws is a failure: the manual caller gets a 500    *)
(* response and no row is written.                                         *)
(***************************************************************************)
IsPlaceholder(data, raw) ==
    /\ Len(data.resources) = 1
    /\ data.resources[1].title.text = "AI Analysis Results"
    /\ data.resources[1].type.text = "analysis"
    /\ data.resources[1].description = raw.text
    /\ data.resources[1].url = Null

C5_UnusableOutputIsPlaceholderSuccess ==
    [][\A s \in Slots :
          LET h == req[s] IN
          req'[s] # h /\ h.kind = "analyze" /\ Answered(h) =>
             /\ Unusable(h.raw) =>
                   /\ h.result.success
                   /\ IsPlaceholder(h.result.data, h.raw)
                   /\ h.pc = "analyzed" => req'[s].pc = "createAnalysisLog"
                   /\ h.pc = "createAnalysisLog" =>
                         /\ resp'[s].status = 200
                         /\ IsPlaceholder(resp'[s].analysis, h.raw)
                         /\ \E row \in logs' \ logs :
                               /\ logs' = logs \cup {row}
                               /\ IsPlaceholder(JsonParse(row.generated_resources), h.raw)
             /\ h.raw.throws =>
                   /\ ~h.result.success
                   /\ h.pc = "analyzed"
                   /\ req'[s].pc = "idle"
                   /\ resp'[s].status = 500
                   /\ logs' = logs]_vars

\* A manual caller was answered 200 with the placeholder built from prose,
\* and the row is in the table.
C5_Witness ==
    /\ resp[1].kind = "analyze"
    /\ resp[1].status = 200
    /\ IsPlaceholder(resp[1].analysis, RawProse)
    /\ \E l \in logs : /\ l.log_id = resp[1].logId
                       /\ IsPlaceholder(JsonParse(l.generated_resources), RawProse)

(***************************************************************************)
(* C6.  A note created by owner A is never returned by the list or get     *)
(* operations run under a different owner B, whatever id B supplies.       *)
(***************************************************************************)
OwnNote(note, u) == note.note_id \in DOMAIN creator /\ creator[note.note_id] = u

C6_NoForeignNoteReturned ==
    \A s \in Slots :
       resp[s].kind \in {"list", "get"} =>
          /\ resp[s].note # NoRow => OwnNote(resp[s].note, resp[s].user)
          /\ \A i \in DOMAIN resp[s].notes : OwnNote(resp[s].notes[i], resp[s].user)

\* u2 asked for the id of a note of u1 and was answered not found.
C6_Witness ==
    /\ resp[1].kind = "get"
    /\ resp[1].user = "u2"
    /\ resp[1].status = 404
    /\ \E r \in notes : r.note_id = resp[1].id /\ creator[r.note_id] = "u1"

(***************************************************************************)
(* C7.  PUT, PATCH or DELETE run under owner B on an id that is not a note *)
(* of B, be it a note of owner A or no note at all, has one outcome: the   *)
(* 404 response "Note not found", and the table of notes is unchanged.     *)
(***************************************************************************)
C7_ForeignIdIsNotFound ==
    [][\A s \in Slots :
          LET h == req[s] IN
          (/\ req'[s] # h
           /\ h.kind \in {"put", "patch", "delete"}
           /\ ~\E r \in notes : r.note_id = h.id /\ creator[r.note_id] = h.user)
          => /\ req'[s].pc = "idle"
             /\ resp'[s] = Plain(s, h.kind, h.user, h.id, 404, "Note not found")
             /\ notes' = notes]_vars

\* u2 tried to change a note of u1, was answered not found, and the note is
\* as it was.
C7_Witness ==
    /\ resp[1].kind \in {"put", "patch", "delete"}
    /\ resp[1].user = "u2"
    /\ resp[1].status = 404
    /\ NoteRow(resp[1].id, "u1", SeedTitle, SeedContent, resp[1].id - NoteCount("u1"))
          \in notes

(***************************************************************************)
(* C8.  Every stored note has a non-empty string title and a non-empty     *)
(* string content in every reachable state.  PATCH checks only the type    *)
(* of a field it is given, so an empty string is stored and the statement  *)
(* fails.                                                                  *)
(***************************************************************************)
HasText(v) == TypeofString(v) /\ StrLen(v) > 0

C8_NotesHaveText == \A r \in notes : HasText(r.title) /\ HasText(r.content)

(***************************************************************************)
(* C9.  A create or PUT request whose title or content is missing, empty   *)
(* or not a string is rejected with a 400 response before any store        *)
(* operation runs: no create or PUT handler is ever in progress with such  *)
(* a body, and the step that takes a request in changes neither table and  *)
(* schedules no analysis.                                                  *)
(***************************************************************************)
C9_InvalidBodyRejected ==
    [][\A s \in Slots :
          /\ (req'[s].kind \in {"create", "put"} /\ req'[s].pc # "idle") =>
                HasText(req'[s].title) /\ HasText(req'[s].content)
          /\ nreq' # nreq =>
                /\ UNCHANGED <<notes, noteSeq, logs, logSeq, scheduled, bg>>
                /\ (req' = req /\ resp'[s].kind \in {"create", "put"}) =>
                      resp'[s].status = 400]_vars

\* A create was rejected while the owner held exactly ten notes and the
\* analyzer was configured; the one analysis scheduled is that of the tenth
\* note.
C9_Witness ==
    /\ resp[1].kind = "create"
    /\ resp[1].status = 400
    /\ resp[1].user = "u1"
    /\ NoteCount("u1") = AnalysisThreshold
    /\ gemini
    /\ scheduled["u1"] = 1

(***************************************************************************)
(* C10.  The batch that batch selection returns never holds more than 10   *)
(* notes, and the lengths of its titles and contents never sum to more     *)
(* than 16,000 characters.                                                 *)
(***************************************************************************)
RECURSIVE BatchChars(_)
BatchChars(batch) ==
    IF batch = <<>> THEN 0
    ELSE Head(batch).title.len + Head(batch).content.len + BatchChars(Tail(batch))

WithinLimits(batch) == Len(batch) <= 10 /\ BatchChars(batch) <= 16000

C10_BatchWithinLimits ==
    /\ \A s \in Slots : WithinLimits(req[s].batch)
    /\ \A i \in DOMAIN bg : WithinLimits(bg[i].batch)
    /\ \A u \in Users : \A batch \in getLatestNotesForAnalysis(notes, u) :
          WithinLimits(batch)

\* A batch of two notes that fills the budget to the last character, cut
\* before a third note of the owner.
C10_Witness ==
    /\ req[1].pc = "analyze"
    /\ Len(req[1].batch) = 2
    /\ BatchChars(req[1].batch) = CharBudget
    /\ NoteCount(req[1].user) > 2

(***************************************************************************)
(* C11.  The batch is exactly the longest prefix of the owner's 10 newest  *)
(* notes, newest first, whose title and content lengths sum to at most     *)
(* 16,000: a note that brings the sum to exactly 16,000 is in, and the     *)
(* first note that would bring it over is out together with every older   *)
(* note, even one that would still fit.                                    *)
(***************************************************************************)
RowChars(r) == r.title.len + r.content.len

\* The rows of owner u in tbl that batch does not hold.
LeftOut(batch, tbl, u) ==
    {r \in RowsOf(tbl, u) : \A i \in DOMAIN batch : batch[i].note_id # r.note_id}

IsLongestPrefix(batch, tbl, u) ==
    LET rest == LeftOut(batch, tbl, u) IN
    /\ Len(batch) <= 10
    /\ \A i \in DOMAIN batch :
          \E r \in RowsOf(tbl, u) :
             /\ r.note_id = batch[i].note_id /\ r.title = batch[i].title
             /\ r.content = batch[i].content /\ r.last_updated = batch[i].last_updated
    /\ \A i, j \in DOMAIN batch :
          i < j => /\ batch[i].note_id # batch[j].note_id
                   /\ batch[i].last_updated >= batch[j].last_updated
    /\ \A i \in DOMAIN batch, r \in rest : r.last_updated <= batch[i].last_updated
    /\ BatchChars(batch) <= 16000
    /\ (Len(batch) < 10 /\ rest # {}) =>
          \E r \in rest : /\ \A q \in rest : q.last_updated <= r.last_updated
                          /\ BatchChars(batch) + RowChars(r) > 16000

C11_BatchIsLongestPrefix ==
    /\ \A u \in Users : \A batch \in getLatestNotesForAnalysis(notes, u) :
          IsLongestPrefix(batch, notes, u)
    /\ \A s \in Slots : req[s].pc = "analyze" =>
          IsLongestPrefix(req[s].batch, notes, req[s].user)

\* The newest note is in the batch, the second would bring the sum over the
\* budget and is out, and so is an older note of two characters.
C11_Witness ==
    /\ req[1].pc = "analyze"
    /\ Len(req[1].batch) = 1
    /\ \E r, q \in LeftOut(req[1].batch, notes, req[1].user) :
          /\ q.last_updated < r.last_updated
          /\ BatchChars(req[1].batch) + RowChars(r) > CharBudget
          /\ BatchChars(req[1].batch) + RowChars(q) <= CharBudget

(***************************************************************************)
(* C12.  The automatic analysis a create-note request triggers starts only *)
(* after the response of that request (201 with the created note) has     *)
(* been determined: the step that queues the run is the step that answers  *)
(* the request, and it leaves the run not yet started.  No step of a run,  *)
(* whether the run succeeds, fails in the analyzer or fails in the store,  *)
(* changes a response or a note.                                           *)
(***************************************************************************)
C12_RunStartsAfterResponse ==
    [][/\ Len(bg') > Len(bg) =>
             /\ SubSeq(bg', 1, Len(bg)) = bg
             /\ Len(bg') = Len(bg) + 1
             /\ bg'[Len(bg')].pc = "scheduled"
             /\ \E s \in Slots :
                   /\ req[s].kind = "create" /\ req'[s].pc = "idle"
                   /\ bg'[Len(bg')].user = req[s].user
                   /\ resp'[s].status = 201
                   /\ resp'[s].note = req[s].note
                   /\ resp'[s].note \in notes
       /\ (bg' # bg /\ Len(bg') <= Len(bg)) => resp' = resp /\ notes' = notes]_vars

\* The create was answered 201 with its note; its run then failed in the
\* store and nothing but the logged error shows it.
C12_Witness ==
    /\ resp[1].kind = "create"
    /\ resp[1].status = 201
    /\ resp[1].shouldTriggerAnalysis
    /\ resp[1].note \in notes
    /\ bg = <<>>
    /\ logs = {}
    /\ Caught(resp[1].user, "createAnalysisLog") \in errors

(***************************************************************************)
(* C13.  A request to an /api/notes endpoint without a token, or with an   *)
(* invalid token, is answered with status 401 and performs no store        *)
(* operation, while GET /health answers 200 without authentication.  The   *)
(* error express-jwt raises reaches the server's only error handler, which *)
(* answers 500 whatever the error, so the statement fails on the status.   *)
(***************************************************************************)
C13_UnauthenticatedIs401 ==
    \A s \in Slots :
       /\ (resp[s].kind \in NoteRoutes /\ resp[s].user = "") => resp[s].status = 401
       /\ resp[s].kind = "health" => resp[s].status = 200

(***************************************************************************)
(* C14.  Every row of analysis_logs has trigger_type "manual" or           *)
(* "automatic", after any sequence of requests, manual analysis requests   *)
(* whose body carries an arbitrary triggerType included.  The handler      *)
(* passes the body's triggerType to createAnalysisLog unchecked and the    *)
(* column has no constraint, so the statement fails.                       *)
(***************************************************************************)
C14_TriggerTypeEnumerated ==
    \A l \in logs : l.trigger_type \in {Str("manual", 6), Str("automatic", 9)}

(***************************************************************************)
(* The bundled client (App.tsx) in front of the server: one signed-in user *)
(* per behaviour who creates notes through the form and asks for an        *)
(* analysis with the button.  When the answer to a create carries          *)
(* shouldTriggerAnalysis, handleCreateNote arms a two-second timer whose   *)
(* callback sends POST /api/analyze-notes with triggerType 'automatic'.    *)
(* The armed timer is the create response the client holds.  Gemini        *)
(* answers every call with a text.                                         *)
(***************************************************************************)
TimerArmed(s) ==
    /\ resp[s].kind = "create"
    /\ resp[s].note # NoRow
    /\ resp[s].shouldTriggerAnalysis

handleCreateNote(s, u, title, content) ==
    /\ ~TimerArmed(s)
    /\ BeginCreate(s, u, title, content)

handleAnalyzeNotes(s, u, triggerType) == BeginAnalyze(s, u, triggerType)

\* setTimeout(() => { handleAnalyzeNotes('automatic') }, 2000)
TimerFires(s) ==
    /\ TimerArmed(s)
    /\ handleAnalyzeNotes(s, resp[s].user, Str("automatic", 9))

GeminiTexts == GeminiResponses \ {RawThrow}

InitClient == \E k \in {0, AnalysisThreshold - 1} : StartOn(k, MaxClientRequests)

NextClient ==
    \/ \E u \in Users : handleCreateNote(1, u, Str("T1", 2), Str("C1", 2))
    \/ \E u \in Users : ~TimerArmed(1) /\ handleAnalyzeNotes(1, u, Str("manual", 6))
    \/ TimerFires(1)
    \/ ExecCreateNote(1)
    \/ ExecGetAllNotes(1)
    \/ ExecAnalyzeSelect(1)
    \/ \E raw \in GeminiTexts : AnalyzeReturns(1, raw)
    \/ AnalyzeResume(1)
    \/ ExecCreateAnalysisLog(1)
    \/ \E i \in 1..Len(bg) : AutoStart(i)
    \/ \E i \in 1..Len(bg) : AutoSelect(i)
    \/ \E i \in 1..Len(bg), raw \in GeminiTexts : AutoReturns(i, raw)
    \/ \E i \in 1..Len(bg) : AutoResume(i)
    \/ \E i \in 1..Len(bg) : AutoLog(i)

SpecClient == InitClient /\ [][NextClient]_vars

AutomaticRows(u) == {l \in logs : l.user_id = u /\ l.trigger_type = Str("automatic", 9)}

\* Nothing the 10th create set off is still under way.
ClientSettled == req[1].pc = "idle" /\ bg = <<>> /\ ~TimerArmed(1)

UpdatedAt(id) == (CHOOSE r \in notes : r.note_id = id).last_updated

NewestFirstEntries(entries) ==
    /\ Len(entries) <= 10
    /\ \A i \in DOMAIN entries : \E r \in notes :
          r.note_id = entries[i].id /\ r.title = entries[i].title
    /\ \A i, j \in DOMAIN entries :
          i < j => UpdatedAt(entries[i].id) >= UpdatedAt(entries[j].id)

(***************************************************************************)
(* C15.  Once an owner's 10th note was created through the bundled client  *)
(* and every analysis run it set off has ended successfully, exactly one   *)
(* analysis_logs row with trigger_type "automatic" exists for that owner,  *)
(* and its notes_analyzed holds at most 10 {id,title} entries ordered      *)
(* newest-first.  The server's own background run and the client's timer   *)
(* request each insert an "automatic" row, so the statement fails.         *)
(***************************************************************************)
C15_OneAutomaticRowPerTenthNote ==
    \A u \in Users :
       (scheduled[u] = 1 /\ ClientSettled) =>
          /\ Cardinality(AutomaticRows(u)) = 1
          /\ \A l \in AutomaticRows(u) : NewestFirstEntries(JsonParse(l.notes_analyzed))

(***************************************************************************)
(* C16.  The analysis log store is append-only: every step of the server   *)
(* keeps every row of analysis_logs with all its fields (created_at        *)
(* included), and no second row ever takes the log_id of an existing one.  *)
(***************************************************************************)
C16_LogsAppendOnly ==
    [][\A l \in logs :
          /\ l \in logs'
          /\ \A m \in logs' : m.log_id = l.log_id => m = l]_vars

\* The same owner has been logged twice: the second insert met a first row.
C16_Witness ==
    \E l, m \in logs : /\ l.log_id < m.log_id
                       /\ l.user_id = m.user_id
                       /\ l.created_at <= m.created_at

NoteWithId(tbl, id) == {r \in tbl : r.note_id = id}

(***************************************************************************)
(* C17.  notes_analyzed is a value snapshot: a step that updates or        *)
(* deletes a note a log row lists leaves that row in the table with the    *)
(* same notes_analyzed (ids and titles).                                   *)
(***************************************************************************)
C17_SnapshotSurvivesNoteChanges ==
    [][\A l \in logs :
          (\E id \in ListedIds(l) : NoteWithId(notes', id) # NoteWithId(notes, id)) =>
             \E m \in logs' : /\ m.log_id = l.log_id
                              /\ m.notes_analyzed = l.notes_analyzed]_vars

\* A log row lists a note the owner has since deleted, and a note whose title
\* is no longer the one the row recorded.
C17_Witness ==
    \E l \in logs :
       LET entries == JsonParse(l.notes_analyzed) IN
       \E i \in DOMAIN entries :
          /\ resp[1].status = 200
          /\ resp[1].kind \in {"put", "patch", "delete"}
          /\ resp[1].id = entries[i].id
          /\ \A r \in notes : r.note_id = entries[i].id => r.title # entries[i].title

(***************************************************************************)
(* Creating, updating and listing notes on a database that starts empty:   *)
(* well-formed requests, one at a time.  Every timestamp is taken while    *)
(* the server runs, and two calls of getCurrentTimestamp may fall in the   *)
(* same millisecond.                                                       *)
(***************************************************************************)
OrderTitles == {Str("T1", 2), Str("T2", 2)}

InitOrder == StartOn(0, MaxOrderRequests)

NextOrder ==
    \/ \E u \in Users, t \in OrderTitles : BeginCreate(1, u, t, Str("C1", 2))
    \/ \E u \in Users, n \in 1..MaxIdParam, t \in OrderTitles :
          BeginPut(1, u, PathId(n), t, Str("C1", 2))
    \/ \E u \in Users : BeginList(1, u)
    \/ ExecCreateNote(1)
    \/ ExecGetAllNotes(1)
    \/ ExecUpdateNote(1)
    \/ ExecList(1)

SpecOrder == InitOrder /\ [][NextOrder]_vars

NewestFirst(rows) ==
    \A i, j \in DOMAIN rows : i < j => rows[i].last_updated >= rows[j].last_updated

(***************************************************************************)
(* C18.  A list response holds the owner's notes in descending order of    *)
(* last_updated, and once an update has succeeded the updated note is the  *)
(* first element of every list of the owner's notes taken from the table   *)
(* that update left.  A note whose last_updated equals the updated note's  *)
(* may be listed before it, so the second part fails.                      *)
(***************************************************************************)
C18_UpdatedNoteListedFirst ==
    [][/\ (req[1].pc = "list" /\ req'[1].pc = "idle") =>
             /\ NewestFirst(resp'[1].notes)
             /\ {resp'[1].notes[i] : i \in DOMAIN resp'[1].notes} = RowsOf(notes, req[1].user)
       /\ (req[1].pc = "updateNote" /\ resp'[1].status = 200) =>
             \A rows \in getAllNotes(notes', req[1].user) :
                rows[1].note_id = req[1].id]_vars

(***************************************************************************)
(* C19.  Every successful update of a note sets its last_updated to a      *)
(* value strictly greater than the one it had, an update in the same       *)
(* millisecond as the creation or the previous update included.            *)
(* updateNote writes the current millisecond whatever the row holds, so    *)
(* the value stays equal when the clock has not advanced.                  *)
(***************************************************************************)
C19_UpdateAdvancesLastUpdated ==
    [][(req[1].pc = "updateNote" /\ resp'[1].status = 200) =>
          \A old \in NoteWithId(notes, req[1].id), new \in NoteWithId(notes', req[1].id) :
             new.last_updated > old.last_updated]_vars

(***************************************************************************)
(* C20.  Creating a note with a valid (title, content) and then reading it *)
(* by the returned id under the same owner, with no update or delete of    *)
(* that note in between, returns the same title and content and a          *)
(* last_updated not earlier than the creation time.  Step by step: the     *)
(* timestamp of a create is not earlier than the clock when the request    *)
(* arrived; the INSERT adds one row under a fresh id with the request's    *)
(* owner, title, content and that timestamp; the 201 response returns that *)
(* row; a row leaves the table or changes only by an update or delete of   *)
(* its id by its owner; and a read by id answers 200 with the stored row   *)
(* of that id and owner whenever there is one.                             *)
(***************************************************************************)
C20_CreateThenGetRoundTrip ==
    [][/\ (req[1].pc = "idle" /\ req'[1].pc = "createNote") => req'[1].ts >= clock
       /\ (req[1].pc = "createNote" /\ req'[1].pc = "getAllNotes") =>
             LET row == req'[1].note IN
             /\ notes' = notes \cup {row}
             /\ NoteWithId(notes, row.note_id) = {}
             /\ row.user_id = req[1].user
             /\ row.title = req[1].title
             /\ row.content = req[1].content
             /\ row.last_updated = req[1].ts
       /\ (req[1].pc = "getAllNotes" /\ req'[1].pc = "idle") =>
             /\ resp'[1].status = 201
             /\ resp'[1].note = req[1].note
             /\ resp'[1].note \in notes'
       /\ \A r \in notes \ notes' :
             /\ req[1].pc \in {"updateNote", "deleteNote"}
             /\ req[1].id = r.note_id
             /\ req[1].user = r.user_id
       /\ (req[1].pc = "get" /\ req'[1].pc = "idle") =>
             LET stored == {r \in notes' : r.note_id = req[1].id /\ r.user_id = req[1].user} IN
             IF stored = {} THEN resp'[1].status = 404
             ELSE resp'[1].status = 200 /\ stored = {resp'[1].note}]_vars

\* The one note of the database was created in this behaviour and has been
\* read back by its id.
C20_Witness ==
    /\ noteSeq = 1
    /\ resp[1].kind = "get"
    /\ resp[1].status = 200
    /\ resp[1].note \in notes
    /\ resp[1].note.note_id = 1
    /\ resp[1].note.title = Str("T1", 2)
    /\ resp[1].note.content = Str("long15999", 15999)
    /\ resp[1].note.last_updated >= 0

(***************************************************************************)
(* Deleting notes and coming back to their ids: well-formed creates, reads *)
(* by id, full and partial updates and deletes, one request at a time, on  *)
(* a database that starts with a few notes or none.                        *)
(***************************************************************************)
InitGone == \E k \in 0..MaxGoneSeed : StartOn(k, MaxGoneRequests)

NextGone ==
    \/ \E u \in Users : BeginCreate(1, u, Str("T1", 2), Str("C1", 2))
    \/ \E u \in Users, n \in 1..MaxIdParam : BeginGet(1, u, PathId(n))
    \/ \E u \in Users, n \in 1..MaxIdParam :
          BeginPut(1, u, PathId(n), Str("T1", 2), Str("C1", 2))
    \/ \E u \in Users, n \in 1..MaxIdParam :
          BeginPatch(1, u, PathId(n), Str("T1", 2), Undefined)
    \/ \E u \in Users, n \in 1..MaxIdParam : BeginDelete(1, u, PathId(n))
    \/ ExecCreateNote(1)
    \/ ExecGetAllNotes(1)
    \/ ExecGet(1)
    \/ ExecUpdateNote(1)
    \/ ExecPatchGet(1)
    \/ ExecDeleteNote(1)

SpecGone == InitGone /\ [][NextGone]_vars

\* The id was assigned to a note of user u and no row carries it any more.
Gone(id, u) == id \in DOMAIN creator /\ creator[id] = u /\ NoteWithId(notes, id) = {}

(***************************************************************************)
(* C21.  A successful delete removes the row of its id; an id whose row is *)
(* gone never has a row again (AUTOINCREMENT never assigns it to a later   *)
(* note); and every get, update, partial update or delete of such an id by *)
(* the owner it belonged to is answered not-found (404).                   *)
(***************************************************************************)
C21_DeletedIdStaysNotFound ==
    [][/\ (req[1].pc = "deleteNote" /\ resp'[1].status = 200) =>
             NoteWithId(notes', req[1].id) = {}
       /\ \A id \in DOMAIN creator :
             NoteWithId(notes, id) = {} => NoteWithId(notes', id) = {}
       /\ \A u \in Users :
             (/\ req[1].pc \in {"get", "getNoteById", "updateNote", "deleteNote"}
              /\ req[1].user = u
              /\ Gone(req[1].id, u)
              /\ req'[1].pc = "idle") => resp'[1].status = 404]_vars

\* A note was created after a delete, and a request for the deleted id by the
\* owner it belonged to has been answered 404.
C21_Witness ==
    /\ resp[1].kind \in {"get", "put", "patch", "delete"}
    /\ resp[1].status = 404
    /\ Gone(resp[1].id, resp[1].user)
    /\ \E r \in notes : r.note_id > resp[1].id /\ r.last_updated >= 0
                         /\ r.note_id = noteSeq /\ noteSeq > MaxGoneSeed

(***************************************************************************)
(* GET /api/analysis-logs and GET /api/analysis-logs/:id                   *)
(***************************************************************************)
NewestLogs(rows) == {r \in rows : \A q \in rows : q.created_at <= r.created_at}

\* ORDER BY created_at DESC; SQL leaves the order of ties open.
RECURSIVE OrderByCreatedAtDesc(_)
OrderByCreatedAtDesc(rows) ==
    IF rows = {} THEN {<<>>}
    ELSE UNION {{<<r>> \o rest : rest \in OrderByCreatedAtDesc(rows \ {r})} :
                r \in NewestLogs(rows)}

\* SELECT * FROM analysis_logs without WHERE user_id = ?
getAllAnalysisLogs_AnyOwner(tbl, userId) == OrderByCreatedAtDesc(tbl)

\* dbOperations.getAllAnalysisLogs
getAllAnalysisLogs(tbl, userId) ==
    OrderByCreatedAtDesc({l \in tbl : l.user_id = userId})

\* { ...log, notes_analyzed: JSON.parse(..), generated_resources: JSON.parse(..) }
ParsedLog(l) == [l EXCEPT !.notes_analyzed = JsonParse(@),
                          !.generated_resources = JsonParse(@)]

BeginListLogs(s, u) ==
    /\ Accept(s)
    /\ req' = [req EXCEPT ![s] =
                 Handler("listLogs", "listLogs", u, 0, Undefined, Undefined, 0, NoRow,
                         Undefined, <<>>, NoResult)]
    /\ resp' = [resp EXCEPT ![s] = NoResponse]
    /\ UNCHANGED <<Store, History, clock, gemini, bg>>

ExecListLogs(s) ==
    /\ req[s].pc = "listLogs"
    /\ \E rows \in getAllAnalysisLogs(logs, req[s].user) :
          Reply(s, [Plain(s, "listLogs", req[s].user, 0, 200,
                          "Analysis logs retrieved successfully")
                    EXCEPT !.logs = [i \in DOMAIN rows |-> ParsedLog(rows[i])]])
    /\ UNCHANGED <<Store, History, clock, gemini, bg, nreq>>

BeginGetLog(s, u, idParam) ==
    /\ Accept(s)
    /\ IF InvalidId(idParam)
       THEN /\ resp' = [resp EXCEPT ![s] = Plain(s, "getLog", u, 0, 400,
                                 "Invalid log ID. Must be a positive integer.")]
            /\ UNCHANGED req
       ELSE /\ req' = [req EXCEPT ![s] =
                         Handler("getLog", "getLog", u, idParam.n, Undefined, Undefined,
                                 0, NoRow, Undefined, <<>>, NoResult)]
            /\ resp' = [resp EXCEPT ![s] = NoResponse]
    /\ UNCHANGED <<Store, History, clock, gemini, bg>>

\* logs.find(l => l.log_id === logId)
ExecGetLog(s) ==
    /\ req[s].pc = "getLog"
    /\ LET h == req[s] IN
       \E rows \in getAllAnalysisLogs(logs, h.user) :
          LET found == {i \in DOMAIN rows : rows[i].log_id = h.id} IN
          IF found = {}
          THEN Reply(s, Plain(s, "getLog", h.user, h.id, 404, "Analysis log not found"))
          ELSE Reply(s, [Plain(s, "getLog", h.user, h.id, 200,
                               "Analysis log retrieved successfully")
                         EXCEPT !.log = ParsedLog(rows[CHOOSE i \in found :
                                                          \A j \in found : i <= j])])
    /\ UNCHANGED <<Store, History, clock, gemini, bg, nreq>>

(***************************************************************************)
(* Two owners with a note each: manual analyses, and reads of the analysis *)
(* history, one request at a time.                                         *)
(***************************************************************************)
LogSeedNotes == {NoteRow(1, "u1", SeedTitle, SeedContent, -1),
                 NoteRow(2, "u2", SeedTitle, SeedContent, 0)}

InitLogs == StartWith(LogSeedNotes, MaxLogRequests)

NextLogs ==
    \/ \E u \in Users : BeginAnalyze(1, u, Undefined)
    \/ \E u \in Users : BeginListLogs(1, u)
    \/ \E u \in Users, id \in IdParams : BeginGetLog(1, u, id)
    \/ ExecAnalyzeSelect(1)
    \/ \E raw \in GeminiResponses : AnalyzeReturns(1, raw)
    \/ AnalyzeResume(1)
    \/ ExecCreateAnalysisLog(1)
    \/ ExecListLogs(1)
    \/ ExecGetLog(1)

SpecLogs == InitLogs /\ [][NextLogs]_vars

(***************************************************************************)
(* C22.  Analysis logs are owner-scoped: the list answered to an owner     *)
(* holds exactly the rows written for that owner, and a read by id answers *)
(* the row when the owner has one with that id and otherwise 404 "Analysis *)
(* log not found", whether the id is another owner's or nobody's.          *)
(***************************************************************************)
C22_LogsOwnerScoped ==
    [][/\ (req[1].pc = "listLogs" /\ req'[1].pc = "idle") =>
             /\ resp'[1].status = 200
             /\ {resp'[1].logs[i].log_id : i \in DOMAIN resp'[1].logs} =
                   {l.log_id : l \in {m \in logs : m.user_id = req[1].user}}
             /\ \A i \in DOMAIN resp'[1].logs : resp'[1].logs[i].user_id = req[1].user
       /\ (req[1].pc = "getLog" /\ req'[1].pc = "idle") =>
             LET own == {l \in logs : l.log_id = req[1].id /\ l.user_id = req[1].user} IN
             IF own = {}
             THEN resp'[1] = Plain(1, "getLog", req[1].user, req[1].id, 404,
                                   "Analysis log not found")
             ELSE /\ resp'[1].status = 200
                  /\ own = {[resp'[1].log EXCEPT
                               !.notes_analyzed = JsonStringify(@),
                               !.generated_resources = JsonStringify(@)]}]_vars

\* Owner B asked for the id of a row written for owner A and got 404, while
\* B has a row of their own.
C22_Witness ==
    /\ resp[1].kind = "getLog"
    /\ resp[1].status = 404
    /\ \E l \in logs : l.log_id = resp[1].id /\ l.user_id # resp[1].user
    /\ \E l \in logs : l.user_id = resp[1].user

(***************************************************************************)
(* Manual analyses of one note in which Gemini answers with a JSON object  *)
(* whose resources array holds any objects: each of title, description,    *)
(* type and url present or absent, and type any string.                    *)
(***************************************************************************)
ResourceObjects ==
    {Resource(t, d, ty, u) :
        t \in {Undefined, Str("Breathing", 9)},
        d \in {Undefined, Str("5 minutes", 9)},
        ty \in {Undefined, Str("article", 7), Str("video", 5)},
        u \in {Undefined, Str("https://example.com", 19)}}

RECURSIVE SeqsUpTo(_, _)
SeqsUpTo(S, n) ==
    IF n = 0 THEN {<<>>}
    ELSE SeqsUpTo(S, n - 1) \cup
         {Append(q, x) : q \in {p \in SeqsUpTo(S, n - 1) : Len(p) = n - 1}, x \in S}

ResourceTexts ==
    {[RawGood EXCEPT !.resources = ResourceArray(items)] :
        items \in SeqsUpTo(ResourceObjects, MaxResources)}

InitResources ==
    StartWith({NoteRow(1, "u1", SeedTitle, SeedContent, 0)}, MaxResourceRequests)

NextResources ==
    \/ BeginAnalyze(1, "u1", Undefined)
    \/ ExecAnalyzeSelect(1)
    \/ \E raw \in ResourceTexts \cup {RawProse} : AnalyzeReturns(1, raw)
    \/ AnalyzeResume(1)
    \/ ExecCreateAnalysisLog(1)

SpecResources == InitResources /\ [][NextResources]_vars

ResourceTypes == {"article", "exercise", "technique", "tool", "analysis"}

(***************************************************************************)
(* C23.  Every result object stored in analysis_logs has a resources       *)
(* sequence whose elements each carry a title, a description, a type and a *)
(* url (null when there is none), and each type is one of article,         *)
(* exercise, technique, tool, analysis.  The wrapper substitutes 'tool'    *)
(* for an absent type only and stores any other type Gemini names, so the  *)
(* last part fails.                                                        *)
(***************************************************************************)
C23_StoredResourcesWellFormed ==
    \A l \in logs :
       LET resources == JsonParse(l.generated_resources).resources IN
       \A i \in DOMAIN resources :
          /\ Truthy(resources[i].title)
          /\ Truthy(resources[i].description)
          /\ resources[i].url # Undefined
          /\ TypeofString(resources[i].type)
          /\ resources[i].type.text \in ResourceTypes

(***************************************************************************)
(* Concurrent creates: two connections, each sending well-formed creates,  *)
(* so that the INSERT and the SELECT of one handler interleave with those  *)
(* of the other.  u1 starts two notes short of the threshold and u2 one    *)
(* note short; the first half of the requests are u1's, the second half    *)
(* u2's.  The specification follows the handlers up to their responses:    *)
(* the callbacks they queue stay queued (a callback changes neither the    *)
(* notes nor what a later create schedules).                               *)
(***************************************************************************)
RaceSeed(u) == IF u = "u1" THEN AnalysisThreshold - 2 ELSE AnalysisThreshold - 1

RaceNotes ==
    SeedNotes(RaceSeed("u1")) \cup
    {NoteRow(RaceSeed("u1") + i, "u2", SeedTitle, SeedContent, i - RaceSeed("u2")) :
        i \in 1..RaceSeed("u2")}

InitRace == StartWith(RaceNotes, MaxRaceRequests)

RaceTurn == IF 2 * nreq > MaxRaceRequests THEN "u1" ELSE "u2"

NextRace ==
    \/ \E s \in Slots : BeginCreate(s, RaceTurn, Str("T1", 2), Str("C1", 2))
    \/ \E s \in Slots : ExecCreateNote(s)
    \/ \E s \in Slots : ExecGetAllNotes(s)

SpecRace == InitRace /\ [][NextRace]_vars

(***************************************************************************)
(* C24.  The trigger check races with concurrent creates by the same       *)
(* owner.  Only a handler that reads the count while it is exactly 10      *)
(* schedules a run, so an owner who starts at 8 notes gets at most two     *)
(* runs and an owner who starts at 9 at most one, and none below 10 notes; *)
(* both extremes happen: two concurrent creates that both schedule (8 to   *)
(* 10), and two concurrent creates after which the owner holds 11 notes    *)
(* and neither scheduled (9 to 11).                                        *)
(***************************************************************************)
C24_RunsBoundedByThresholdReads ==
    \A u \in Users :
       /\ scheduled[u] <= AnalysisThreshold - RaceSeed(u)
       /\ NoteCount(u) < AnalysisThreshold => scheduled[u] = 0
       /\ ~gemini => scheduled[u] = 0

\* Both interleavings in one behaviour: u1 went from 8 to 10 notes and both
\* creates scheduled a run; u2 went from 9 to 11 and neither did.
C24_Witness ==
    /\ \A s \in Slots : req[s].pc = "idle"
    /\ NoteCount("u1") = AnalysisThreshold
    /\ scheduled["u1"] = 2
    /\ NoteCount("u2") = AnalysisThreshold + 1
    /\ scheduled["u2"] = 0
    /\ gemini

(***************************************************************************)
(* Concurrent partial updates: connection 1 sends PATCH requests that      *)
(* carry a new title only, connection 2 PATCH requests that carry a new    *)
(* content only, so that the SELECT and the UPDATE of one handler          *)
(* interleave with those of the other.                                     *)
(***************************************************************************)
InitPatch == \E k \in 1..MaxIdParam : StartOn(k, MaxPatchRequests)

NextPatch ==
    \/ \E u \in Users, n \in 1..MaxIdParam :
          BeginPatch(1, u, PathId(n), Str("T1", 2), Undefined)
    \/ \E u \in Users, n \in 1..MaxIdParam :
          BeginPatch(2, u, PathId(n), Undefined, Str("C1", 2))
    \/ \E s \in Slots : ExecPatchGet(s)
    \/ \E s \in Slots : ExecUpdateNote(s)

SpecPatch == InitPatch /\ [][NextPatch]_vars

(***************************************************************************)
(* C25.  Two concurrent PATCH requests on the same note by its owner, one  *)
(* with a new title only and one with a new content only, that both        *)
(* succeed leave the note with the new title and the new content.  Each    *)
(* handler writes back the field it did not get as it read it before its   *)
(* own UPDATE, so the later UPDATE undoes the earlier one's change.        *)
(***************************************************************************)
C25_ConcurrentPatchesMerge ==
    (/\ \A s \in Slots : req[s].pc = "idle" /\ resp[s].kind = "patch" /\ resp[s].status = 200
     /\ resp[1].id = resp[2].id
     /\ resp[1].user = resp[2].user) =>
       \A r \in NoteWithId(notes, resp[1].id) :
          r.title = Str("T1", 2) /\ r.content = Str("C1", 2)


(***************************************************************************)
(* C26.  Within one analysis run (a POST /api/analyze-notes handler or a   *)
(* setImmediate callback) the steps occur in the order batch selection,    *)
(* analyzer invocation, log append.  The selection step takes a batch the  *)
(* query returns for the notes as they are at that moment, newest first;   *)
(* the run keeps that batch while the analyzer call is pending and after   *)
(* it; a row is added to analysis_logs only by a run that stands at        *)
(* createAnalysisLog with a successful result, and the row's               *)
(* notes_analyzed is the {id, title} of every note of the run's batch, in  *)
(* batch order, whatever has happened to the notes in the meantime.        *)
(***************************************************************************)
NewestFirstBatch(batch) ==
    \A i \in 1..Len(batch), j \in 1..Len(batch) :
       i < j => batch[i].last_updated >= batch[j].last_updated

\* The step of run h that takes it to h2.
RunOrderOk(h, h2) ==
    CASE h.pc = "getLatest" ->
            /\ h2.pc = "analyze"
            /\ h2.batch \in getLatestNotesForAnalysis(notes, h.user)
            /\ NewestFirstBatch(h2.batch)
            /\ \A i \in 1..Len(h2.batch) :
                  \E r \in notes : /\ r.user_id = h.user
                                   /\ r.note_id = h2.batch[i].note_id
                                   /\ r.title = h2.batch[i].title
      [] h.pc = "analyze" -> h2.pc = "analyzed" /\ h2.batch = h.batch
      [] h.pc = "analyzed" ->
            /\ h2.pc = "createAnalysisLog"
            /\ h2.batch = h.batch
            /\ h.result.success
      [] OTHER -> TRUE

\* Run h ends by adding the row of its batch.
RunAppends(h) ==
    /\ h.pc = "createAnalysisLog"
    /\ h.result.success
    /\ \E row \in logs' :
          /\ logs' = logs \cup {row}
          /\ row \notin logs
          /\ row.user_id = h.user
          /\ Len(JsonParse(row.notes_analyzed)) = Len(h.batch)
          /\ \A i \in 1..Len(h.batch) :
                /\ JsonParse(row.notes_analyzed)[i].id = h.batch[i].note_id
                /\ JsonParse(row.notes_analyzed)[i].title = h.batch[i].title

C26_RunOrderAndSnapshot ==
    [][/\ \A s \in Slots :
             (/\ req[s].kind = "analyze"
              /\ req'[s] # req[s]
              /\ req'[s].pc # "idle") => RunOrderOk(req[s], req'[s])
       /\ Len(bg') = Len(bg) =>
             \A i \in DOMAIN bg :
                bg'[i] # bg[i] /\ bg[i].pc # "scheduled" => RunOrderOk(bg[i], bg'[i])
       /\ logs' # logs =>
             \/ \E s \in Slots : /\ req[s].kind = "analyze"
                                 /\ req'[s].pc = "idle"
                                 /\ RunAppends(req[s])
             \/ \E i \in DOMAIN bg : bg' = RemoveAt(bg, i) /\ RunAppends(bg[i])]_vars

\* An automatic run has logged its batch although, while its analyzer call
\* was pending, a note of the batch was given another title: the row holds
\* the title the batch had.
C26_Witness ==
    /\ bg = <<>>
    /\ scheduled["u1"] = 1
    /\ resp[1].kind = "put" /\ resp[1].status = 200
    /\ \E l \in logs :
          /\ l.trigger_type.text = "automatic"
          /\ Len(JsonParse(l.notes_analyzed)) = AnalysisThreshold
          /\ \E i \in 1..AnalysisThreshold :
                /\ JsonParse(l.notes_analyzed)[i].id = resp[1].id
                /\ JsonParse(l.notes_analyzed)[i].title = SeedTitle
                /\ NoteWithId(notes, resp[1].id) # {}
                /\ \A r \in NoteWithId(notes, resp[1].id) : r.title # SeedTitle

(***************************************************************************)
(* C27.  A PATCH that supplies only one of title and content replaces that *)
(* field, keeps the stored value of the other and sets last_updated to the *)
(* time of the update; every other row is left as it was.  A PATCH on an   *)
(* id that the owner has no note under is answered 404 and changes         *)
(* nothing.                                                                *)
(***************************************************************************)
OnlyTitle(h) == h.title.type # "undefined" /\ h.content.type = "undefined"
OnlyContent(h) == h.title.type = "undefined" /\ h.content.type # "undefined"

C27_PatchReplacesOneField ==
    [][\A s \in Slots :
          LET h == req[s]
              own == {r \in notes : r.note_id = h.id /\ r.user_id = h.user} IN
          /\ (h.kind = "patch" /\ h.pc = "getNoteById" /\ req'[s] # h) =>
                /\ own = {} => /\ req'[s].pc = "idle"
                               /\ resp'[s].status = 404
                               /\ notes' = notes
                /\ req'[s].pc = "updateNote" =>
                      \E r \in own :
                         /\ req'[s].note = r
                         /\ OnlyTitle(h) => /\ req'[s].title = h.title
                                            /\ req'[s].content = r.content
                         /\ OnlyContent(h) => /\ req'[s].title = r.title
                                              /\ req'[s].content = h.content
                         /\ req'[s].ts >= r.last_updated
          /\ (h.kind = "patch" /\ h.pc = "updateNote" /\ req'[s] # h) =>
                /\ own = {} => resp'[s].status = 404 /\ notes' = notes
                /\ own # {} =>
                      /\ own = {h.note}
                      /\ resp'[s].status = 200
                      /\ notes' = (notes \ own) \cup
                                     {NoteRow(h.id, h.user, h.title, h.content, h.ts)}
                      /\ h.ts >= h.note.last_updated]_vars

\* A PATCH with a title only has been answered: the note holds the new
\* title, the content it was seeded with and the time of the update.
C27_Witness ==
    /\ req[1].pc = "idle"
    /\ resp[1].kind = "patch" /\ resp[1].status = 200
    /\ \E r \in notes :
          /\ r.note_id = resp[1].id /\ r.user_id = resp[1].user
          /\ r.title = Str("T1", 2)
          /\ r.content = SeedContent
          /\ r.last_updated = clock /\ clock > 0

(***************************************************************************)
(* C28.  The step of POST /api/notes that counts the owner's notes after   *)
(* the insert answers 201 with shouldTriggerAnalysis true exactly when it  *)
(* queues a background run, and it queues one exactly when the count it    *)
(* read is 10 and the Gemini service was initialised; no other step        *)
(* queues a run.  While the service is unavailable nothing is ever queued, *)
(* the analyzer is never called, no log row exists, and a POST             *)
(* /api/analyze-notes is answered 503 at once: the handler issues no       *)
(* query and the tables stay as they are.                                  *)
(***************************************************************************)
Queues(q, q2, u) == q2 = Append(q, BackgroundRun(u))

C28_FlagIffScheduled ==
    [][/\ \A s \in Slots :
             LET h == req[s] IN
             /\ (h.pc = "getAllNotes" /\ req'[s] # h) =>
                   LET tenth == NoteCount(h.user) = AnalysisThreshold /\ gemini IN
                   /\ resp'[s].status = 201
                   /\ resp'[s].shouldTriggerAnalysis = tenth
                   /\ Queues(bg, bg', h.user) = tenth
                   /\ ~tenth => bg' = bg
                   /\ scheduled'[h.user] - scheduled[h.user] = IF tenth THEN 1 ELSE 0
             /\ (h.pc = "idle" /\ resp'[s] # resp[s] /\ resp'[s].kind = "analyze"
                 /\ ~gemini) =>
                   /\ resp'[s].status = 503
                   /\ req'[s].pc = "idle"
                   /\ <<notes, logs, calls>>' = <<notes, logs, calls>>
       /\ (\A s \in Slots : req[s].pc # "getAllNotes" \/ req'[s] = req[s]) =>
             /\ scheduled' = scheduled
             /\ Len(bg') <= Len(bg)
       /\ ~gemini => /\ bg = <<>> /\ bg' = <<>>
                     /\ calls' = {} /\ logs' = {}
                     /\ \A u \in Users : scheduled'[u] = 0
                     /\ \A s \in Slots : req'[s].kind # "analyze"]_vars

\* Without the service: the owner's tenth note was created with the flag
\* false and nothing queued, and the manual analysis asked for next was
\* refused with 503.
C28_Witness ==
    /\ ~gemini
    /\ NoteCount("u1") = AnalysisThreshold
    /\ creator[noteSeq] = "u1" /\ noteSeq = AnalysisThreshold
    /\ req[1].pc = "idle"
    /\ resp[1].kind = "analyze" /\ resp[1].status = 503
    /\ scheduled["u1"] = 0 /\ bg = <<>> /\ logs = {}

\* With the service: the tenth create was answered with the flag true and
\* its run is queued.
C28_WitnessScheduled ==
    /\ gemini
    /\ req[1].pc = "idle"
    /\ resp[1].kind = "create" /\ resp[1].shouldTriggerAnalysis
    /\ NoteCount("u1") = AnalysisThreshold
    /\ bg = <<BackgroundRun("u1")>>

(***************************************************************************)
(* C29.  No analysis run is retried.  A run, whether a POST                *)
(* /api/analyze-notes handler or a queued setImmediate callback, only      *)
(* moves forward through selection, analyzer call, result and log append,  *)
(* so it calls the analyzer at most once; a background run ends either by  *)
(* its failure, which adds no row, calls nothing and queues nothing, or by *)
(* its log append; a run is queued only by a step of POST /api/notes; and  *)
(* when no handler and no background run is in progress the only thing     *)
(* that can happen is the arrival of a new request.                        *)
(***************************************************************************)
RunRank(pc) ==
    CASE pc = "scheduled" -> 0
      [] pc = "getLatest" -> 1
      [] pc = "analyze" -> 2
      [] pc = "analyzed" -> 3
      [] pc = "createAnalysisLog" -> 4
      [] OTHER -> 5

C29_NoRetry ==
    [][/\ \A s \in Slots :
             (req[s].kind = "analyze" /\ req'[s] # req[s]) =>
                /\ RunRank(req'[s].pc) > RunRank(req[s].pc)
                /\ req'[s].pc = "analyze" =>
                      req[s].pc = "getLatest" /\ calls' \ calls \subseteq
                         {AnalyzerCall("request", req[s].user, req'[s].batch)}
                /\ req'[s].pc # "analyze" => calls' = calls
       /\ Len(bg') = Len(bg) =>
             \A i \in DOMAIN bg :
                bg'[i] # bg[i] =>
                   /\ bg'[i].user = bg[i].user
                   /\ RunRank(bg'[i].pc) = RunRank(bg[i].pc) + 1
                   /\ \A j \in DOMAIN bg : j # i => bg'[j] = bg[j]
       /\ Len(bg') < Len(bg) =>
             \E i \in DOMAIN bg :
                /\ bg' = RemoveAt(bg, i)
                /\ calls' = calls
                /\ \/ /\ bg[i].pc = "analyzed"
                      /\ ~bg[i].result.success
                      /\ logs' = logs
                   \/ /\ bg[i].pc = "createAnalysisLog"
                      /\ Cardinality(logs') = Cardinality(logs) + 1
       /\ Len(bg') > Len(bg) =>
             \E s \in Slots : /\ req[s].pc = "getAllNotes"
                              /\ req'[s].pc = "idle"
                              /\ bg' = Append(bg, BackgroundRun(req[s].user))
       /\ (bg = <<>> /\ \A s \in Slots : req[s].pc = "idle") => nreq' = nreq - 1]_vars

\* The automatic run of the tenth note called the analyzer, failed and is
\* over: one call was made, no row was written, nothing is queued and no
\* request is left to come.
C29_Witness ==
    /\ scheduled["u1"] = 1
    /\ bg = <<>>
    /\ \A s \in Slots : req[s].pc = "idle"
    /\ nreq = 0
    /\ logs = {}
    /\ errors = {}
    /\ \E c \in calls : calls = {c} /\ c.kind = "background" /\ c.user = "u1"
=============================================================================
